---------------------------- MODULE Spec2Model ----------------------------
(***************************************************************************)
(* A model of ibtree, the immutable AVL tree of VictorLowther/ibtree.      *)
(*                                                                         *)
(* Nodes live in a heap: a sequence of node records, a node's address      *)
(* being its index and Nil (0) the absent child.  Every write the Go code  *)
(* makes through a *node is an update of the heap at that address, so      *)
(* aliasing between tree versions is modelled and not assumed away.        *)
(*                                                                         *)
(* One mutation batch (one call of New, Insert, DeleteItems, ...) runs on  *)
(* a "machine" record that holds the heap, the forked Tree's fields and    *)
(* the nodeStack of the batch.  The Go functions are operators from        *)
(* machine to machine; loops are RECURSIVE operators.                      *)
(***************************************************************************)
EXTENDS Integers, Sequences, FiniteSets, TLC

\* ------------------------------------------------------------------ bounds
\* Keys are 1..MaxKey.
MaxKey == 4
\* Variadic calls (New, Insert, DeleteItems) take at most MaxBatch items.
MaxBatch == 2

\* ------------------------------------------------------------------ items
Keys == 1..MaxKey
\* The payload of an item (the `mark` of the tests' ovr struct).  The tree
\* never looks at it; two values tell a stored item from an equivalent one.
Marks == {1, 2}
\* An item is the tests' ovr{i, mark}: <<key, mark>>.
Items == Keys \X Marks
\* The zero value of T.
Zero == <<0, 0>>

Less == -1
Equal == 0
Greater == 1
rightHeavy == 2
leftHeavy == -2

Nil == 0

\* A LessThan[T] is a Go func value; it is modelled by its graph, the set of
\* pairs <<a, b>> it answers true for.
\* ol: the LessThan of the tests: compares the key, ignores the mark.
ol == {p \in Items \X Items : p[1][1] < p[2][1]}

LessThan(less, a, b) == <<a, b>> \in less

\* The closure Reverse builds around ll: func(a, b) { return ll(b, a) }.
ReverseLess(ll) == {p \in Items \X Items : LessThan(ll, p[2], p[1])}

\* The closure SortBy builds around l and prevLess.
SortByLess(l, prevLess) ==
  {p \in Items \X Items :
     IF LessThan(l, p[1], p[2]) THEN TRUE
     ELSE IF LessThan(l, p[2], p[1]) THEN FALSE
     ELSE LessThan(prevLess, p[1], p[2])}

\* ------------------------------------------------------------------ nodes
leaf(v) == [l |-> Nil, r |-> Nil, h |-> 1, i |-> v]

\* The nodeStack a batch gets from getNsp, and the forked Tree it works on.
Machine(hp, tr, seenIsNil) ==
  [heap |-> hp, root |-> tr.root, count |-> tr.count, less |-> tr.less,
   s |-> <<>>, seen |-> {}, seenNil |-> seenIsNil, startedWithEmpty |-> FALSE,
   ret |-> 0, panic |-> "", deleted |-> Zero, found |-> FALSE,
   ndeleted |-> 0, rebalanced |-> FALSE, copies |-> 0, copied |-> <<>>,
   brokeAt |-> 0, swapped |-> <<>>]

Panic(m, msg) == [m EXCEPT !.panic = msg]

\* seenAt taking every node for one of the batch's own.
seenAtAlways(m, a) == TRUE

seenAt(m, a) == m.startedWithEmpty \/ a \in m.seen

clear(m) == [m EXCEPT !.s = <<>>]

\* Adding to a nil map panics in Go.
seenAdd(m, a) ==
  IF m.seenNil THEN Panic(m, "assignment to entry in nil map")
  ELSE [m EXCEPT !.seen = @ \cup {a}]

newNode(m, v) ==
  IF m.startedWithEmpty
  THEN [m EXCEPT !.heap = Append(@, leaf(v)), !.ret = Len(m.heap) + 1]
  ELSE seenAdd([m EXCEPT !.heap = Append(@, leaf(v)), !.ret = Len(m.heap) + 1],
               Len(m.heap) + 1)

\* copy handing back the shared node itself.
copyShared(m, n) == [m EXCEPT !.ret = n]

\* ns.copy(n); the node it returns is left in ret.  n.copy() of a nil n
\* dereferences nil.
copy(m, n) ==
  IF seenAt(m, n) THEN [m EXCEPT !.ret = n]
  ELSE IF n = Nil THEN Panic(m, "nil pointer dereference")
  ELSE seenAdd([m EXCEPT !.heap = Append(@, m.heap[n]), !.copies = @ + 1,
                         !.copied = Append(@, n), !.ret = Len(m.heap) + 1],
               Len(m.heap) + 1)

\* ns.s = append(ns.s, <the node copy returned>)
appendRet(c) == IF c.panic # "" THEN c ELSE [c EXCEPT !.s = Append(@, c.ret)]

add(m, n) == appendRet(copy(m, n))

\* ns.s[i-1].l = ns.s[i]
linkLeft(c, i) ==
  IF c.panic # "" THEN c ELSE [c EXCEPT !.heap[c.s[i]].l = c.s[i + 1]]

\* ns.s[i-1].r = ns.s[i]
linkRight(c, i) ==
  IF c.panic # "" THEN c ELSE [c EXCEPT !.heap[c.s[i]].r = c.s[i + 1]]

addLeft(m, n) == linkLeft(appendRet(copy(m, n)), Len(m.s))

addRight(m, n) == linkRight(appendRet(copy(m, n)), Len(m.s))

\* ns.at(-1), ns.at(-2), ns.at(0)
at(m, i) == IF i >= 0 THEN m.s[i + 1] ELSE m.s[Len(m.s) + i + 1]

drop(m) ==
  [m EXCEPT !.seen = @ \ {m.s[Len(m.s)]},
            !.s = SubSeq(@, 1, Len(@) - 1)]

height(hp, n) == IF n = Nil THEN 0 ELSE hp[n].h

\* n.balance()
balance(hp, n) == height(hp, hp[n].r) - height(hp, hp[n].l)

\* n.setHeight(); a nil n dereferences nil.
setHeight(m, n) ==
  IF m.panic # "" THEN m
  ELSE IF n = Nil THEN Panic(m, "nil pointer dereference")
  ELSE [m EXCEPT !.heap[n].h =
          (IF m.heap[n].r # Nil /\ height(m.heap, m.heap[n].r) >= height(m.heap, m.heap[n].l)
           THEN height(m.heap, m.heap[n].r)
           ELSE height(m.heap, m.heap[n].l)) + 1]

\* a.rotateLeft(): b = a.r; a.r = b.l; b.l = a; b is left in ret.
rotateLeft(m, a) ==
  IF m.panic # "" THEN m
  ELSE IF m.heap[a].r = Nil THEN Panic(m, "nil pointer dereference")
  ELSE [m EXCEPT !.heap[a].r = m.heap[m.heap[a].r].l,
                 !.heap[m.heap[a].r].l = a,
                 !.ret = m.heap[a].r]

\* a.rotateRight(): b = a.l; a.l = b.r; b.r = a; b is left in ret.
rotateRight(m, a) ==
  IF m.panic # "" THEN m
  ELSE IF m.heap[a].l = Nil THEN Panic(m, "nil pointer dereference")
  ELSE [m EXCEPT !.heap[a].l = m.heap[m.heap[a].l].r,
                 !.heap[m.heap[a].l].r = a,
                 !.ret = m.heap[a].l]

\* n.swapChild(was, is); is is left in ret.
swapChild(m, n, was, is) ==
  IF m.panic # "" THEN m
  ELSE IF m.heap[n].l = was THEN [m EXCEPT !.heap[n].l = is, !.ret = is]
  ELSE IF m.heap[n].r = was THEN [m EXCEPT !.heap[n].r = is, !.ret = is]
  ELSE Panic(m, "Impossible")

\* n.l = <the node left in ret>, n.r = <the node left in ret>
setLeft(c, n) == IF c.panic # "" THEN c ELSE [c EXCEPT !.heap[n].l = c.ret]
setRight(c, n) == IF c.panic # "" THEN c ELSE [c EXCEPT !.heap[n].r = c.ret]

\* ------------------------------------------------------------------ descent
\* The loop of getExact with n its cursor; the direction is left in ret.
RECURSIVE getExactLoop(_, _, _)

\* n = n.r and n = n.l, read once addRight (addLeft) has run.
getExactRight(m1, n, v) == getExactLoop(m1, m1.heap[n].r, v)
getExactLeft(m1, n, v) == getExactLoop(m1, m1.heap[n].l, v)

getExactLoop(m, n, v) ==
  IF m.panic # "" THEN m
  ELSE IF n = Nil THEN [m EXCEPT !.ret = Equal]
  ELSE IF LessThan(m.less, m.heap[n].i, v) THEN
         IF m.heap[n].r = Nil THEN [m EXCEPT !.ret = Greater]
         ELSE getExactRight(addRight(m, m.heap[n].r), n, v)
  ELSE IF LessThan(m.less, v, m.heap[n].i) THEN
         IF m.heap[n].l = Nil THEN [m EXCEPT !.ret = Less]
         ELSE getExactLeft(addLeft(m, m.heap[n].l), n, v)
  ELSE [m EXCEPT !.ret = Equal]

getExact(m, n, v) == getExactLoop(add(clear(m), n), n, v)

\* for n.l != nil { res.addLeft(n.l); n = n.l }
RECURSIVE getLeftmostLoop(_, _)
getLeftmostNext(m1, n) == getLeftmostLoop(m1, m1.heap[n].l)
getLeftmostLoop(m, n) ==
  IF m.panic # "" THEN m
  ELSE IF n = Nil THEN Panic(m, "nil pointer dereference")
  ELSE IF m.heap[n].l = Nil THEN m
  ELSE getLeftmostNext(addLeft(m, m.heap[n].l), n)

getLeftmostStart(m1, n) == getLeftmostLoop(m1, m1.heap[n].r)
getLeftmost(m, n) == getLeftmostStart(addRight(m, m.heap[n].r), n)

\* for n.r != nil { res.addRight(n.r); n = n.r }
RECURSIVE getRightmostLoop(_, _)
getRightmostNext(m1, n) == getRightmostLoop(m1, m1.heap[n].r)
getRightmostLoop(m, n) ==
  IF m.panic # "" THEN m
  ELSE IF n = Nil THEN Panic(m, "nil pointer dereference")
  ELSE IF m.heap[n].r = Nil THEN m
  ELSE getRightmostNext(addRight(m, m.heap[n].r), n)

getRightmostStart(m1, n) == getRightmostLoop(m1, m1.heap[n].l)
getRightmost(m, n) == getRightmostStart(addLeft(m, m.heap[n].l), n)

\* ------------------------------------------------------------------ rebalance
\* The rightHeavy case of rebalance for n = ins.s[i] (i counts from 1); the
\* node that now heads the subtree is left in ret.
\* n.r.r.setHeight()
rightHeavyInnerHeight(m5, n) ==
  IF m5.panic # "" THEN m5 ELSE setHeight(m5, m5.heap[m5.heap[n].r].r)

\* n.r = n.r.rotateRight(); n.r.r.setHeight()
rightHeavyInnerRotate(m3, n) ==
  rightHeavyInnerHeight(setRight(rotateRight(m3, m3.heap[n].r), n), n)

\* rightHeavyInner copying the outer grandchild n.r.r as well.
rightHeavyInnerOuter(m1, n) ==
  IF m1.panic # "" THEN m1
  ELSE IF m1.heap[n].r = Nil THEN Panic(m1, "nil pointer dereference")
  ELSE IF balance(m1.heap, m1.heap[n].r) < 0
  THEN rightHeavyInnerRotate(setLeft(copy(m1, m1.heap[m1.heap[n].r].l),
                                     m1.heap[n].r), n)
  ELSE setRight(copy(m1, m1.heap[m1.heap[n].r].r), m1.heap[n].r)

\* if n.r.balance() < 0 { n.r.l = ins.copy(n.r.l); ... }
rightHeavyInner(m1, n) ==
  IF m1.panic # "" THEN m1
  ELSE IF m1.heap[n].r = Nil THEN Panic(m1, "nil pointer dereference")
  ELSE IF balance(m1.heap, m1.heap[n].r) < 0
  THEN rightHeavyInnerRotate(setLeft(copy(m1, m1.heap[m1.heap[n].r].l),
                                     m1.heap[n].r), n)
  ELSE m1

\* n = ins.s[i-1].swapChild(n, <n.rotateLeft()>) when i > 0
rotatedSwap(m6, n, i) ==
  IF m6.panic # "" THEN m6
  ELSE IF i > 1 THEN swapChild(m6, m6.s[i - 1], n, m6.ret)
  ELSE m6

\* rotatedLeftHeight without its n.l.setHeight().
rotatedLeftHeightSkip(m7) == m7

\* n.l.setHeight(); setHeight leaves ret, the new n, alone.
rotatedLeftHeight(m7) ==
  IF m7.panic # "" THEN m7 ELSE setHeight(m7, m7.heap[m7.ret].l)

rebalanceRightHeavy(m, i) ==
  rotatedLeftHeight(
    rotatedSwap(
      rotateLeft(rightHeavyInner(setRight(copy(m, m.heap[m.s[i]].r), m.s[i]),
                                 m.s[i]),
                 m.s[i]),
      m.s[i], i))

\* The leftHeavy case, the mirror image.
\* n.l.l.setHeight()
leftHeavyInnerHeight(m5, n) ==
  IF m5.panic # "" THEN m5 ELSE setHeight(m5, m5.heap[m5.heap[n].l].l)

\* n.l = n.l.rotateLeft(); n.l.l.setHeight()
leftHeavyInnerRotate(m3, n) ==
  leftHeavyInnerHeight(setLeft(rotateLeft(m3, m3.heap[n].l), n), n)

\* if n.l.balance() > 0 { n.l.r = ins.copy(n.l.r); ... }
leftHeavyInner(m1, n) ==
  IF m1.panic # "" THEN m1
  ELSE IF m1.heap[n].l = Nil THEN Panic(m1, "nil pointer dereference")
  ELSE IF balance(m1.heap, m1.heap[n].l) > 0
  THEN leftHeavyInnerRotate(setRight(copy(m1, m1.heap[m1.heap[n].l].r),
                                     m1.heap[n].l), n)
  ELSE m1

\* n.r.setHeight()
rotatedRightHeight(m7) ==
  IF m7.panic # "" THEN m7 ELSE setHeight(m7, m7.heap[m7.ret].r)

rebalanceLeftHeavy(m, i) ==
  rotatedRightHeight(
    rotatedSwap(
      rotateRight(leftHeavyInner(setLeft(copy(m, m.heap[m.s[i]].l), m.s[i]),
                                 m.s[i]),
                  m.s[i]),
      m.s[i], i))

\* rebalanceSwitch taking every balance for a tolerable one.
rebalanceSwitchNone(m, i) == [m EXCEPT !.ret = m.s[i]]

\* switch n.balance() { ... }: the new n is left in ret.
rebalanceSwitch(m, i) ==
  IF balance(m.heap, m.s[i]) \in {Less, Equal, Greater}
  THEN [m EXCEPT !.ret = m.s[i]]
  ELSE IF balance(m.heap, m.s[i]) = rightHeavy THEN rebalanceRightHeavy(m, i)
  ELSE IF balance(m.heap, m.s[i]) = leftHeavy THEN rebalanceLeftHeavy(m, i)
  ELSE Panic(m, "Tree too far out of shape!")

\* The loop of rebalance at ins.s[i] (i counts from 1).
RECURSIVE rebalanceLoop(_, _)

\* rebalanceBreak leaving the loop whatever the heights are.
rebalanceBreakAlways(m2, i, oh) == m2

\* rebalanceBreak leaving the loop as soon as the height has not shrunk.
rebalanceBreakGrown(m2, i, oh) ==
  IF m2.panic # "" THEN m2
  ELSE IF oh <= m2.heap[m2.s[i]].h THEN [m2 EXCEPT !.brokeAt = i]
  ELSE rebalanceLoop(m2, i - 1)

\* if oh == n.h { break }; brokeAt keeps the frame the loop was left at.
rebalanceBreak(m2, i, oh) ==
  IF m2.panic # "" THEN m2
  ELSE IF oh = m2.heap[m2.s[i]].h THEN [m2 EXCEPT !.brokeAt = i]
  ELSE rebalanceLoop(m2, i - 1)

\* ins.s[i] = n; n.setHeight()
rebalanceSet(m1, i, oh) ==
  IF m1.panic # "" THEN m1
  ELSE rebalanceBreak(setHeight([m1 EXCEPT !.s[i] = m1.ret], m1.ret), i, oh)

rebalanceLoop(m, i) ==
  IF i < 1 \/ m.panic # "" THEN m
  ELSE rebalanceSet(rebalanceSwitch(m, i), i, m.heap[m.s[i]].h)

rebalance(m) ==
  rebalanceLoop([m EXCEPT !.rebalanced = TRUE, !.brokeAt = 0], Len(m.s))

\* ------------------------------------------------------------------ insert
\* insertRoot without its assignment to t.root.
insertRootStale(m2) == m2

\* t.root = ins.at(0)
insertRoot(m2) == IF m2.panic # "" THEN m2 ELSE [m2 EXCEPT !.root = at(m2, 0)]

\* insertRebalance that never calls rebalance.
insertRebalanceNever(m1, needRebalance) ==
  IF m1.panic # "" THEN m1 ELSE insertRoot(m1)

\* if needRebalance { rebalance(ins) }
insertRebalance(m1, needRebalance) ==
  IF m1.panic # "" THEN m1
  ELSE insertRoot(IF needRebalance THEN rebalance(m1) ELSE m1)

\* insertAt hanging the new node on the other side of n.
insertAtWrongSide(g, item) ==
  IF g.panic # "" THEN g
  ELSE IF g.ret = Equal
  THEN insertRebalance([g EXCEPT !.heap[at(g, -1)].i = item], FALSE)
  ELSE IF g.ret = Less
  THEN insertRebalance(setRight(newNode([g EXCEPT !.count = @ + 1], item),
                                at(g, -1)),
                       g.heap[at(g, -1)].r = Nil)
  ELSE insertRebalance(setLeft(newNode([g EXCEPT !.count = @ + 1], item),
                               at(g, -1)),
                       g.heap[at(g, -1)].l = Nil)

\* insertAt leaving the stored item alone when it finds an equivalent one.
insertAtKeepOld(g, item) ==
  IF g.panic # "" THEN g
  ELSE IF g.ret = Equal THEN insertRebalance(g, FALSE)
  ELSE IF g.ret = Less
  THEN insertRebalance(setLeft(newNode([g EXCEPT !.count = @ + 1], item),
                               at(g, -1)),
                       g.heap[at(g, -1)].r = Nil)
  ELSE insertRebalance(setRight(newNode([g EXCEPT !.count = @ + 1], item),
                                at(g, -1)),
                       g.heap[at(g, -1)].l = Nil)

\* The body of insertOne after getExact has left the direction in ret.
insertAt(g, item) ==
  IF g.panic # "" THEN g
  ELSE IF g.ret = Equal
  THEN insertRebalance([g EXCEPT !.heap[at(g, -1)].i = item], FALSE)
  ELSE IF g.ret = Less
  THEN insertRebalance(setLeft(newNode([g EXCEPT !.count = @ + 1], item),
                               at(g, -1)),
                       g.heap[at(g, -1)].r = Nil)
  ELSE insertRebalance(setRight(newNode([g EXCEPT !.count = @ + 1], item),
                                at(g, -1)),
                       g.heap[at(g, -1)].l = Nil)

\* t.root = ins.newNode(item); t.count = 1
insertFirst(m1) ==
  IF m1.panic # "" THEN m1 ELSE [m1 EXCEPT !.root = m1.ret, !.count = 1]

insertOne(m, item) ==
  IF m.panic # "" THEN m
  ELSE IF m.root = Nil
  THEN insertFirst(newNode([m EXCEPT !.startedWithEmpty = TRUE], item))
  ELSE insertAt(getExact(m, m.root, item), item)

\* for i := range items { res.insertOne(ins, items[i]) }
RECURSIVE insertAll(_, _)
insertAll(m, items) ==
  IF items = <<>> THEN m
  ELSE insertAll(insertOne(m, Head(items)), Tail(items))

\* ------------------------------------------------------------------ delete
\* if alt.l == at { alt.l = nil } else { alt.r = nil }
unlink(m, alt, a) ==
  IF m.heap[alt].l = a THEN [m EXCEPT !.heap[alt].l = Nil]
                       ELSE [m EXCEPT !.heap[alt].r = Nil]

\* deleteRoot without its into.count--.
deleteRootKeepCount(m2) ==
  IF m2.panic # "" THEN m2 ELSE [m2 EXCEPT !.root = at(m2, 0)]

\* into.root = ins.at(0); into.count--
deleteRoot(m2) ==
  IF m2.panic # "" THEN m2
  ELSE [m2 EXCEPT !.root = at(m2, 0), !.count = @ - 1]

\* The for loop of deleteOne with at = a.
RECURSIVE deleteLoop(_, _)

\* deleteSwap without its exchange of the two items.
deleteSwapKeep(m1, a) ==
  IF m1.panic # "" THEN m1 ELSE deleteLoop(m1, at(m1, -1))

\* alt = ins.at(-1); at.i, alt.i = alt.i, at.i; at = alt.  swapped keeps, for
\* each exchange, the two nodes written and the item that moved up.
deleteSwap(m1, a) ==
  IF m1.panic # "" THEN m1
  ELSE deleteLoop([m1 EXCEPT !.heap[a].i = m1.heap[at(m1, -1)].i,
                             !.heap[at(m1, -1)].i = m1.heap[a].i,
                             !.swapped = Append(@, [at |-> a,
                                                    alt |-> at(m1, -1),
                                                    i |-> m1.heap[at(m1, -1)].i])],
                  at(m1, -1))

\* deleteLoop looking for a left child before it looks for a right one.
deleteLoopLeftFirst(m, a) ==
  IF m.panic # "" THEN m
  ELSE IF m.heap[a].h = 1 THEN
    IF Len(m.s) > 1
    THEN deleteRoot(rebalance(drop(unlink(m, at(m, -2), a))))
    ELSE [m EXCEPT !.root = Nil, !.count = @ - 1]
  ELSE IF m.heap[a].l # Nil THEN deleteSwap(getRightmost(m, a), a)
  ELSE IF m.heap[a].r # Nil THEN deleteSwap(getLeftmost(m, a), a)
  ELSE Panic(m, "Impossible")

deleteLoop(m, a) ==
  IF m.panic # "" THEN m
  ELSE IF m.heap[a].h = 1 THEN
    IF Len(m.s) > 1
    THEN deleteRoot(rebalance(drop(unlink(m, at(m, -2), a))))
    ELSE [m EXCEPT !.root = Nil, !.count = @ - 1]
  ELSE IF m.heap[a].r # Nil THEN deleteSwap(getLeftmost(m, a), a)
  ELSE IF m.heap[a].l # Nil THEN deleteSwap(getRightmost(m, a), a)
  ELSE Panic(m, "Impossible")

\* deleteAt handing back the copied root when it finds nothing.
deleteAtNewRoot(g) ==
  IF g.panic # "" THEN g
  ELSE IF g.ret # Equal
  THEN [g EXCEPT !.deleted = Zero, !.found = FALSE, !.root = at(g, 0)]
  ELSE deleteLoop([g EXCEPT !.deleted = g.heap[at(g, -1)].i, !.found = TRUE],
                  at(g, -1))

\* The body of deleteOne after getExact has left the direction in ret.
deleteAt(g) ==
  IF g.panic # "" THEN g
  ELSE IF g.ret # Equal THEN [g EXCEPT !.deleted = Zero, !.found = FALSE]
  ELSE deleteLoop([g EXCEPT !.deleted = g.heap[at(g, -1)].i, !.found = TRUE,
                            !.swapped = <<>>],
                  at(g, -1))

deleteOne(m, item) ==
  IF m.panic # "" THEN m
  ELSE IF m.root = Nil THEN [m EXCEPT !.deleted = Zero, !.found = FALSE]
  ELSE deleteAt(getExact(m, m.root, item))

\* ------------------------------------------------------------------ walks
RECURSIVE Preorder(_, _)
Preorder(hp, n) ==
  IF n = Nil THEN <<>>
  ELSE <<n>> \o Preorder(hp, hp[n].l) \o Preorder(hp, hp[n].r)

\* The items of the subtree at n, left to right (what Walk visits).
RECURSIVE InOrder(_, _)
InOrder(hp, n) ==
  IF n = Nil THEN <<>>
  ELSE InOrder(hp, hp[n].l) \o <<hp[n].i>> \o InOrder(hp, hp[n].r)

Range(q) == {q[j] : j \in 1..Len(q)}

Reach(hp, n) == Range(Preorder(hp, n))

\* ------------------------------------------------------------------ lookups
\* t.Cmp(reference) applied to treeVal
Cmp(less, reference, treeVal) ==
  IF LessThan(less, treeVal, reference) THEN Less
  ELSE IF LessThan(less, reference, treeVal) THEN Greater
  ELSE Equal

\* The loop of Fetch with n its cursor.
RECURSIVE FetchLoop(_, _, _, _)
FetchLoop(hp, less, n, item) ==
  IF n = Nil THEN [v |-> Zero, found |-> FALSE]
  ELSE IF LessThan(less, hp[n].i, item) THEN FetchLoop(hp, less, hp[n].l, item)
  ELSE IF LessThan(less, item, hp[n].i) THEN FetchLoop(hp, less, hp[n].r, item)
  ELSE [v |-> hp[n].i, found |-> TRUE]

\* t.Fetch(item)
Fetch(hp, tr, item) == FetchLoop(hp, tr.less, tr.root, item)

\* A CompareAgainst[T] is a Go func value: it is modelled by the answers it
\* gives, one for each item.  CmpOf(less, reference) is t.Cmp(reference).
CmpOf(less, reference) == [treeVal \in Items |-> Cmp(less, reference, treeVal)]

\* The loop of Get with h its cursor.
RECURSIVE GetLoop(_, _, _)
RECURSIVE GetLoopWrongWay(_, _, _)
RECURSIVE GetLoopLenient(_, _, _)
GetLoopWrongWay(hp, h, cmp) ==
  IF h = Nil THEN [v |-> Zero, found |-> FALSE, panic |-> ""]
  ELSE IF cmp[hp[h].i] = Greater THEN GetLoopWrongWay(hp, hp[h].r, cmp)
  ELSE IF cmp[hp[h].i] = Less THEN GetLoopWrongWay(hp, hp[h].l, cmp)
  ELSE IF cmp[hp[h].i] = Equal THEN [v |-> hp[h].i, found |-> TRUE, panic |-> ""]
  ELSE [v |-> Zero, found |-> FALSE, panic |-> "unorderable"]

\* Get taking a value that is none of Less, Equal and Greater for "not here".
GetLoopLenient(hp, h, cmp) ==
  IF h = Nil THEN [v |-> Zero, found |-> FALSE, panic |-> ""]
  ELSE IF cmp[hp[h].i] = Greater THEN GetLoopLenient(hp, hp[h].l, cmp)
  ELSE IF cmp[hp[h].i] = Less THEN GetLoopLenient(hp, hp[h].r, cmp)
  ELSE IF cmp[hp[h].i] = Equal THEN [v |-> hp[h].i, found |-> TRUE, panic |-> ""]
  ELSE [v |-> Zero, found |-> FALSE, panic |-> ""]

GetLoop(hp, h, cmp) ==
  IF h = Nil THEN [v |-> Zero, found |-> FALSE, panic |-> ""]
  ELSE IF cmp[hp[h].i] = Greater THEN GetLoop(hp, hp[h].l, cmp)
  ELSE IF cmp[hp[h].i] = Less THEN GetLoop(hp, hp[h].r, cmp)
  ELSE IF cmp[hp[h].i] = Equal THEN [v |-> hp[h].i, found |-> TRUE, panic |-> ""]
  ELSE [v |-> Zero, found |-> FALSE, panic |-> "unorderable"]

\* t.Get(cmp)
Get(hp, tr, cmp) == GetLoop(hp, tr.root, cmp)

\* t.Has(cmp): _, found := t.Get(cmp); return found
Has(hp, tr, cmp) == [Get(hp, tr, cmp) EXCEPT !.v = Zero]

\* min(n) and max(n): the leftmost and the rightmost node under n
RECURSIVE min(_, _)
min(hp, n) == IF hp[n].l # Nil THEN min(hp, hp[n].l) ELSE n

RECURSIVE max(_, _)
maxOfNone(hp, n) == n

max(hp, n) == IF hp[n].r # Nil THEN max(hp, hp[n].r) ELSE n

\* t.Min() and t.Max()
Min(hp, tr) ==
  IF tr.root # Nil THEN [v |-> hp[min(hp, tr.root)].i, found |-> TRUE]
  ELSE [v |-> Zero, found |-> FALSE]

Max(hp, tr) ==
  IF tr.root # Nil THEN [v |-> hp[max(hp, tr.root)].i, found |-> TRUE]
  ELSE [v |-> Zero, found |-> FALSE]

\* ------------------------------------------------------------------ iterator
\* A Test[T] is a Go func value or nil; a func is modelled by the set of
\* items it answers true for.
NilTest == [isNil |-> TRUE, yes |-> {}]
TestOf(S) == [isNil |-> FALSE, yes |-> S]
\* test != nil && test(v)
Holds(test, v) == ~test.isNil /\ v \in test.yes

\* Lte(t.Cmp(v)) and Gte(t.Cmp(v))
Lte(less, v) == TestOf({x \in Items : Cmp(less, v, x) < Greater})
Gte(less, v) == TestOf({x \in Items : Cmp(less, v, x) > Less})

\* t.Iterator(start, stop): a cmpIter.  root is i.t.root; released stands
\* for i.t == nil; ok is what the last Next or Prev returned.
Iterator(tr, start, stop) ==
  [root |-> tr.root, less |-> tr.less, released |-> FALSE, stack |-> <<>>,
   workingNode |-> tr.root, start |-> start, stop |-> stop,
   ascending |-> FALSE, ok |-> FALSE]

ReleaseKeepsNode(it) == [it EXCEPT !.released = TRUE]

Release(it) ==
  [it EXCEPT !.stack = <<>>, !.workingNode = Nil, !.start = NilTest,
             !.stop = NilTest, !.released = TRUE]

stackHead(it) == IF Len(it.stack) = 0 THEN Nil ELSE it.stack[Len(it.stack)]

push(it, n) == [it EXCEPT !.stack = Append(@, n)]

pop(it) ==
  IF Len(it.stack) = 0 THEN [it EXCEPT !.workingNode = Nil]
  ELSE [it EXCEPT !.stack = SubSeq(@, 1, Len(@) - 1),
                  !.workingNode = IF Len(it.stack) - 1 > 0
                                  THEN it.stack[Len(it.stack) - 1] ELSE Nil]

swapHead(it) == [it EXCEPT !.stack[Len(it.stack)] = it.workingNode]

\* i.min(n): pickNextNode(n, n.l, n.r, i.start) until n is nil.
RECURSIVE iterMin(_, _, _)
iterMin(hp, it, n) ==
  IF n = Nil THEN it
  ELSE IF Holds(it.start, hp[n].i) THEN iterMin(hp, it, hp[n].r)
  ELSE iterMin(hp, push(it, n), hp[n].l)

\* i.max(n): pickNextNode(n, n.r, n.l, i.stop) until n is nil.
RECURSIVE iterMax(_, _, _)
iterMax(hp, it, n) ==
  IF n = Nil THEN it
  ELSE IF Holds(it.stop, hp[n].i) THEN iterMax(hp, it, hp[n].l)
  ELSE iterMax(hp, push(it, n), hp[n].r)

\* i.workingNode = i.stackHead()
toStackHead(it) == [it EXCEPT !.workingNode = stackHead(it)]

\* if i.workingNode == nil || (test != nil && test(i.workingNode.i))
\*   { i.Release(); return false }; return true
releaseIf(hp, it, test) ==
  IF it.workingNode = Nil \/ Holds(test, hp[it.workingNode].i)
  THEN [Release(it) EXCEPT !.ok = FALSE]
  ELSE [it EXCEPT !.ok = TRUE]

iterInitFromRoot(hp, it, ascending, orNot) ==
  releaseIf(hp,
            toStackHead([(IF ascending
                          THEN iterMin(hp, it, IF it.workingNode # Nil
                                               THEN it.workingNode ELSE it.root)
                          ELSE iterMax(hp, it, IF it.workingNode # Nil
                                               THEN it.workingNode ELSE it.root))
                         EXCEPT !.ascending = ascending]),
            orNot)

iterInit(hp, it, ascending, orNot) ==
  IF it.workingNode # Nil
  THEN releaseIf(hp,
                 toStackHead([(IF ascending THEN iterMin(hp, it, it.workingNode)
                                            ELSE iterMax(hp, it, it.workingNode))
                              EXCEPT !.ascending = ascending]),
                 orNot)
  ELSE [Release(it) EXCEPT !.ok = FALSE]

\* if i.workingNode.l != nil { i.min(i.workingNode.l); i.workingNode = i.stackHead() }
minOfLeft(hp, it) ==
  IF hp[it.workingNode].l # Nil
  THEN toStackHead(iterMin(hp, it, hp[it.workingNode].l))
  ELSE it

maxOfRight(hp, it) ==
  IF hp[it.workingNode].r # Nil
  THEN toStackHead(iterMax(hp, it, hp[it.workingNode].r))
  ELSE it

\* the test of i.stop (i.start) that ends Next (Prev)
releaseIfStart(hp, it) == releaseIf(hp, it, it.start)

releaseIfStopNever(hp, it) == releaseIf(hp, it, NilTest)

releaseIfStop(hp, it) == releaseIf(hp, it, it.stop)

\* The rest of Next once the iterator is ascending.
iterStepUp(hp, it) ==
  releaseIfStop(hp,
    IF hp[it.workingNode].r = Nil THEN pop(it)
    ELSE minOfLeft(hp, swapHead([it EXCEPT !.workingNode = hp[it.workingNode].r])))

\* The rest of Prev once the iterator is descending.
iterStepDown(hp, it) ==
  releaseIfStart(hp,
    IF hp[it.workingNode].l = Nil THEN pop(it)
    ELSE maxOfRight(hp, swapHead([it EXCEPT !.workingNode = hp[it.workingNode].l])))

\* i.start = old (i.stop = old) when the inner Next (Prev) returned true
restoreStart(it, old) == IF ~it.ok THEN it ELSE [it EXCEPT !.start = old]
restoreStop(it, old) == IF ~it.ok THEN it ELSE [it EXCEPT !.stop = old]

\* changeDirection: its inner Next (Prev) finds the stack empty and so is
\* init(true, i.stop) (init(false, i.stop)).
changeDirection(hp, it) ==
  IF ~it.ascending
  THEN restoreStart(
         iterInit(hp, [it EXCEPT !.ascending = TRUE, !.stack = <<>>,
                                 !.workingNode = it.root,
                                 !.start = Lte(it.less, hp[it.workingNode].i)],
                  TRUE, it.stop),
         it.start)
  ELSE restoreStop(
         iterInit(hp, [it EXCEPT !.ascending = FALSE, !.stack = <<>>,
                                 !.workingNode = it.root,
                                 !.stop = Gte(it.less, hp[it.workingNode].i)],
                  FALSE, Gte(it.less, hp[it.workingNode].i)),
         it.stop)

\* if the direction changed: go on unless changeDirection returned false
stepUpIfOk(hp, c) == IF ~c.ok THEN c ELSE iterStepUp(hp, c)
stepDownIfOk(hp, c) == IF ~c.ok THEN c ELSE iterStepDown(hp, c)

\* i.Next()
iterNext(hp, it) ==
  IF Len(it.stack) = 0 THEN iterInit(hp, it, TRUE, it.stop)
  ELSE IF ~it.ascending THEN stepUpIfOk(hp, changeDirection(hp, it))
  ELSE iterStepUp(hp, it)

\* i.Prev()
iterPrev(hp, it) ==
  IF Len(it.stack) = 0 THEN iterInit(hp, it, FALSE, it.stop)
  ELSE IF it.ascending THEN stepDownIfOk(hp, changeDirection(hp, it))
  ELSE iterStepDown(hp, it)

\* i.Item(); "panic" stands for the panic of an iterator with an empty stack.
iterItem(hp, it) ==
  IF Len(it.stack) = 0 THEN "panic" ELSE hp[it.workingNode].i

\* Lt(t.Cmp(v)) and Gt(t.Cmp(v))
Lt(less, v) == TestOf({x \in Items : Cmp(less, v, x) = Less})
Gt(less, v) == TestOf({x \in Items : Cmp(less, v, x) = Greater})

\* for i.Next() { if !iterator(i.Item()) { i.Release() } }: the loop of Range,
\* After, Before and Walk.  visited lists the items iterator was called on.
RECURSIVE visitLoop(_, _, _, _)

\* if !iterator(i.Item()) { i.Release() }
visitReleaseNever(it, visitor, item) == it

visitRelease(it, visitor, item) ==
  IF Holds(visitor, item) THEN it ELSE Release(it)

\* the body of the loop, i.Next() having returned i1.ok
visitBody(hp, i1, visitor, visited) ==
  IF ~i1.ok THEN [it |-> i1, visited |-> visited]
  ELSE visitLoop(hp, visitRelease(i1, visitor, iterItem(hp, i1)), visitor,
                 Append(visited, iterItem(hp, i1)))

visitLoop(hp, it, visitor, visited) ==
  visitBody(hp, iterNext(hp, it), visitor, visited)

\* t.Range(start, stop, iterator), t.After(start, iterator),
\* t.Before(stop, iterator) and t.Walk(iterator)
RangeOver(hp, tr, start, stop, visitor) ==
  visitLoop(hp, Iterator(tr, start, stop), visitor, <<>>)
After(hp, tr, start, visitor) ==
  visitLoop(hp, Iterator(tr, start, NilTest), visitor, <<>>)
Before(hp, tr, stop, visitor) ==
  visitLoop(hp, Iterator(tr, NilTest, stop), visitor, <<>>)
WalkOver(hp, tr, visitor) ==
  visitLoop(hp, Iterator(tr, NilTest, NilTest), visitor, <<>>)

\* ------------------------------------------------------------------ rangeIter
\* t.OffsetAndLimit(offset, limit): a rangeIter.  root is r.t.root, released
\* stands for r.t == nil; ok is what the last Next or Prev returned.
OffsetAndLimit(tr, offset, limit) ==
  [root |-> tr.root, released |-> FALSE, stack |-> <<>>,
   offset |-> offset, limit |-> limit, ok |-> FALSE]

\* r.workingNode()
rangeWorkingNode(r) == IF Len(r.stack) = 0 THEN Nil ELSE r.stack[Len(r.stack)]

\* r.pop(): the iterator it leaves; what it returns is r.workingNode() before
rangePop(r) ==
  IF Len(r.stack) = 0 THEN r
  ELSE [r EXCEPT !.stack = SubSeq(@, 1, Len(@) - 1)]

\* r.Release()
rangeRelease(r) == [r EXCEPT !.stack = <<>>, !.released = TRUE]

\* r.Item()
rangeItem(hp, r) ==
  IF rangeWorkingNode(r) = Nil THEN "panic" ELSE hp[rangeWorkingNode(r)].i

\* r.Prev()
rangePrevPops(r) == [rangePop(r) EXCEPT !.ok = FALSE]

rangePrev(r) == [r EXCEPT !.ok = FALSE]

\* r.min(n)
RECURSIVE rangeMin(_, _, _)
rangeMin(hp, r, n) ==
  IF hp[n].l = Nil THEN [r EXCEPT !.stack = Append(@, n)]
  ELSE rangeMin(hp, [r EXCEPT !.stack = Append(@, n)], hp[n].l)

\* n := r.pop(); if n != nil && n.r != nil { r.min(n.r) }
rangeAdvance(hp, r, n) ==
  IF n # Nil /\ hp[n].r # Nil THEN rangeMin(hp, rangePop(r), hp[n].r)
  ELSE rangePop(r)

\* r.next()
rangeStepKeepOffset(hp, r) == rangeAdvance(hp, r, rangeWorkingNode(r))

rangeStep(hp, r) ==
  rangeAdvance(hp, [r EXCEPT !.offset = IF @ > 0 THEN @ - 1 ELSE @],
               rangeWorkingNode(r))

\* for r.offset > 0 && len(r.stack) > 0 { r.next() }
RECURSIVE rangeSkip(_, _)
rangeSkip(hp, r) ==
  IF r.offset > 0 /\ Len(r.stack) > 0 THEN rangeSkip(hp, rangeStep(hp, r))
  ELSE r

\* if r.t.root != nil { r.min(r.t.root) }
rangeStart(hp, r) == IF r.root # Nil THEN rangeMin(hp, r, r.root) ELSE r

\* the end of Next: the limit and the exhausted stack
rangeEnd(r) ==
  IF r.limit = 0 \/ rangeWorkingNode(r) = Nil
  THEN [rangeRelease(r) EXCEPT !.ok = FALSE]
  ELSE [r EXCEPT !.limit = IF @ > 0 THEN @ - 1 ELSE @, !.ok = TRUE]

\* rangeNext starting over from the root whenever it finds the stack empty.
rangeNextRestarts(hp, r) ==
  IF Len(r.stack) = 0
  THEN rangeEnd(rangeSkip(hp, rangeStart(hp, r)))
  ELSE rangeEnd(rangeStep(hp, r))

\* r.Next()
rangeNext(hp, r) ==
  IF Len(r.stack) = 0
  THEN IF r.released THEN [r EXCEPT !.ok = FALSE]
       ELSE rangeEnd(rangeSkip(hp, rangeStart(hp, r)))
  ELSE rangeEnd(rangeStep(hp, r))

\* ------------------------------------------------------------------ copyNodes
\* copyNodes(n, reverse) on heap hp: the heap with the copy allocated, and
\* the copy's address in ret.
RECURSIVE copyNodes(_, _, _)

\* res.r = <copy> or res.l = <copy>, res being at address a
linkCopy(c, a, toRight) ==
  IF toRight THEN [c.heap EXCEPT ![a].r = c.ret]
             ELSE [c.heap EXCEPT ![a].l = c.ret]

\* The left child's copy always linked as the left child.
copyLeftStraight(h0, nl, a, reverse) ==
  IF nl = Nil THEN h0 ELSE linkCopy(copyNodes(h0, nl, reverse), a, FALSE)

\* if n.l != nil { ... }
copyLeft(h0, nl, a, reverse) ==
  IF nl = Nil THEN h0 ELSE linkCopy(copyNodes(h0, nl, reverse), a, reverse)

\* if n.r != nil { ... }; return res
copyRight(h1, nr, a, reverse) ==
  IF nr = Nil THEN [heap |-> h1, ret |-> a]
  ELSE [heap |-> linkCopy(copyNodes(h1, nr, reverse), a, ~reverse), ret |-> a]

copyNodes(hp, n, reverse) ==
  IF n = Nil THEN [heap |-> hp, ret |-> Nil]
  ELSE copyRight(
         copyLeft(Append(hp, [l |-> Nil, r |-> Nil, h |-> hp[n].h, i |-> hp[n].i]),
                  hp[n].l, Len(hp) + 1, reverse),
         hp[n].r, Len(hp) + 1, reverse)

\* ------------------------------------------------------------------ state
VARIABLES
  heap,   \* the nodes allocated so far
  t,      \* the Tree the caller holds: the result of the last call
  prev,   \* the receiver of the last call (its root addresses heap and pre)
  pre,    \* the heap as it was when the last call began
  last,   \* the last call: its name, arguments and other results
  iter,   \* the Iter the caller holds, if any
  hist    \* what the caller did with iter and what it got

vars == <<heap, t, prev, pre, last, iter, hist>>

EmptyTree(lt) == [root |-> Nil, count |-> 0, less |-> lt]

Call(op, items) ==
  [op |-> op, items |-> items, v |-> Zero, deleted |-> Zero, found |-> FALSE,
   ndeleted |-> 0, panic |-> "", rebalanced |-> FALSE, copies |-> 0,
   copied |-> <<>>, brokeAt |-> 0, s |-> <<>>, swapped |-> <<>>]

\* No call is being observed: the caller holds t and nothing else.
Idle == Call("", <<>>)

\* The address a node at a gets when the nodes in order are renamed 1..n.
Renamed(order, a) ==
  IF a = Nil THEN Nil ELSE CHOOSE j \in 1..Len(order) : order[j] = a

\* The nodes of hp listed in order, renamed.
Renaming(hp, order) ==
  [j \in 1..Len(order) |->
     [l |-> Renamed(order, hp[order[j]].l), r |-> Renamed(order, hp[order[j]].r),
      h |-> hp[order[j]].h, i |-> hp[order[j]].i]]

\* The heap as the garbage collector leaves it once the caller holds only t:
\* the nodes reachable from t.root survive.  Go code compares node addresses
\* for equality only, so the survivors are renamed 1..n in preorder.
Collected == Renaming(heap, Preorder(heap, t.root))

\* Fork: a new Tree with the same root, count and less.
Fork(tr) == [root |-> tr.root, count |-> tr.count, less |-> tr.less]

\* The Tree a batch leaves in its machine.
TreeOf(m) == [root |-> m.root, count |-> m.count, less |-> m.less]

\* No iterator is held.
NoIter == [kind |-> "none"]

\* The state a finished call leaves behind: m is its machine, t its receiver.
\* A call that panicked returns nothing, and the caller keeps t.
Publish(m, call) ==
  /\ iter = NoIter
  /\ UNCHANGED <<iter, hist>>
  /\ heap' = m.heap
  /\ t' = IF m.panic = "" THEN TreeOf(m) ELSE t
  /\ prev' = t
  /\ pre' = heap
  /\ last' = [call EXCEPT !.deleted = m.deleted, !.found = m.found,
                          !.ndeleted = m.ndeleted, !.panic = m.panic,
                          !.rebalanced = m.rebalanced, !.copies = m.copies,
                          !.copied = m.copied, !.brokeAt = m.brokeAt,
                          !.s = m.s, !.swapped = m.swapped]

\* ------------------------------------------------------------------ inputs
\* The sequences over S of length at most n.
RECURSIVE SeqsUpTo(_, _)
Longer(shorter, S) == shorter \cup {Append(q, x) : q \in shorter, x \in S}
SeqsUpTo(S, n) == IF n = 0 THEN {<<>>} ELSE Longer(SeqsUpTo(S, n - 1), S)

\* The items of a variadic call with keys ks: successive items carry
\* alternating marks, the first one m0.
Stamp(ks, m0) ==
  [j \in 1..Len(ks) |-> <<ks[j], IF j % 2 = 1 THEN m0 ELSE 3 - m0>>]

\* The callbacks the tests hand to CreateWith, InsertWith and DeleteWith are
\* loops over a key range, upwards or downwards, calling the thunk on each.
Loops == {f \in Keys \X Keys \X BOOLEAN : f[1] <= f[2]}
LoopItems(f, mk) ==
  [j \in 1..(f[2] - f[1] + 1) |->
     <<IF f[3] THEN f[1] + j - 1 ELSE f[2] - j + 1, mk>>]

\* A LessThan handed to SortedClone: one that never answers true (every pair
\* falls back to the receiver's ordering) and one that orders by descending
\* key.
SortLess == {{}, {p \in Items \X Items : p[2][1] < p[1][1]}}

\* What a caller hands to a tree ordered by less: batches and loops of every
\* kind to a tree in the key ordering, single items to a tree in another
\* ordering (a tree that Reverse or SortedClone returned).
Batches(less) ==
  IF less = ol THEN SeqsUpTo(Keys, MaxBatch) ELSE SeqsUpTo(Keys, 1)
Fills(less) ==
  IF less = ol THEN Loops ELSE {f \in Loops : f[1] = f[2] /\ f[3]}

\* ------------------------------------------------------------------ calls
\* New(lt, items...)
NewTree(lt, items) == insertAll(Machine(<<>>, EmptyTree(lt), FALSE), items)

\* CreateWith(lt, fill): res := New(lt), then a second nodeStack for fill.
createFill(res, items) ==
  insertAll(Machine(res.heap, TreeOf(res), FALSE), items)
CreateWithFill(lt, items) == createFill(NewTree(lt, <<>>), items)

\* t.Insert(item...)
InsertItems(hp, tr, items) == insertAll(Machine(hp, Fork(tr), FALSE), items)

\* t.InsertWith(fill), fill calling the thunk on items in turn
InsertWithFill(hp, tr, items) == insertAll(Machine(hp, Fork(tr), FALSE), items)

\* t.Delete(item)
DeleteItem(hp, tr, item) == deleteOne(Machine(hp, Fork(tr), FALSE), item)

\* if found { deleted++ }
countFound(m1) == [m1 EXCEPT !.ndeleted = IF m1.found THEN @ + 1 ELSE @]

\* for i := range items { _, found = into.deleteOne(ins, items[i]) ... }
RECURSIVE deleteAll(_, _)
deleteAll(m, items) ==
  IF items = <<>> \/ m.panic # "" THEN m
  ELSE deleteAll(countFound(deleteOne(m, Head(items))), Tail(items))

\* t.DeleteItems(items...)
DeleteItemsOf(hp, tr, items) == deleteAll(Machine(hp, Fork(tr), FALSE), items)

\* t.DeleteWith(erase), erase calling the thunk on items in turn
DeleteWithErase(hp, tr, items) == deleteAll(Machine(hp, Fork(tr), FALSE), items)

\* t.Reverse(): the machine carries the heap and the new Tree.
reversed(c, tr) ==
  Machine(c.heap, [root |-> c.ret, count |-> tr.count,
                   less |-> ReverseLess(tr.less)], FALSE)

\* Reverse copying the nodes without mirroring them.
ReverseTreeStraight(hp, tr) == reversed(copyNodes(hp, tr.root, FALSE), tr)

\* Reverse handing out the receiver's own nodes.
ReverseTreeShared(hp, tr) == reversed([heap |-> hp, ret |-> tr.root], tr)

ReverseTree(hp, tr) == reversed(copyNodes(hp, tr.root, TRUE), tr)

\* SortBy without the fall back to the receiver's ordering.
SortByOnly(tr, l) == EmptyTree(l)

\* t.SortBy(l)
SortBy(tr, l) == EmptyTree(SortByLess(l, tr.less))

\* for iter.Next() { res.insertOne(ins, iter.Item()) }
RECURSIVE cloneLoop(_, _)
cloneStep(m, i1) ==
  IF ~i1.ok \/ m.panic # "" THEN m
  ELSE cloneLoop(insertOne(m, iterItem(m.heap, i1)), i1)
cloneLoop(m, it) == cloneStep(m, iterNext(m.heap, it))

\* t.SortedClone(l): ins is &nodeStack[T]{}, whose seen map is nil.
SortedClone(hp, tr, l) ==
  cloneLoop(Machine(hp, SortBy(tr, l), TRUE), Iterator(tr, NilTest, NilTest))

\* ------------------------------------------------------------------ actions
\* A call of Next, Prev or Release on iter: ok is what it returned, was
\* the iterator as the call found it.
IterCall(op, ok, was) == [op |-> op, ok |-> ok, was |-> was]
NoCall == IterCall("", FALSE, NoIter)

\* A call of Item: the item it returned, or the panic.
Got(item, panic) == [called |-> TRUE, item |-> item, panic |-> panic]
NoGot == [called |-> FALSE, item |-> Zero, panic |-> FALSE]

\* made: the arguments iter was made with.  yield: for each Next or Prev
\* that returned true, in turn, its name and the item the cursor was on.
\* ended: the first call that left the iterator released, endedAt the
\* length of yield at that call.
History(made) ==
  [made |-> made, yield |-> <<>>, ended |-> "", endedAt |-> 0,
   lastc |-> NoCall, got |-> NoGot]
NoHist == History(<<>>)

Init ==
  /\ heap = <<>>
  /\ t = EmptyTree(ol)
  /\ prev = EmptyTree(ol)
  /\ pre = <<>>
  /\ last = Idle
  /\ iter = NoIter
  /\ hist = NoHist

\* The caller lets go of everything but t; the collector runs.
Settle ==
  /\ last # Idle
  /\ heap' = Collected
  /\ t' = [t EXCEPT !.root = IF t.root = Nil THEN Nil ELSE 1]
  /\ prev' = t'
  /\ pre' = heap'
  /\ last' = Idle
  /\ UNCHANGED <<iter, hist>>

\* The constructors do not read the Tree the caller holds: they are taken
\* when it holds an empty one.
New ==
  /\ last = Idle
  /\ t.root = Nil
  /\ \E ks \in SeqsUpTo(Keys, MaxBatch), m0 \in Marks :
       Publish(NewTree(ol, Stamp(ks, m0)), Call("New", Stamp(ks, m0)))

CreateWith ==
  /\ last = Idle
  /\ t.root = Nil
  /\ \E f \in Loops, mk \in Marks :
       Publish(CreateWithFill(ol, LoopItems(f, mk)),
               Call("CreateWith", LoopItems(f, mk)))

Insert ==
  /\ last = Idle
  /\ \E ks \in Batches(t.less) :
       Publish(InsertItems(heap, t, Stamp(ks, 1)), Call("Insert", Stamp(ks, 1)))

InsertWith ==
  /\ last = Idle
  /\ \E f \in Fills(t.less), mk \in Marks :
       Publish(InsertWithFill(heap, t, LoopItems(f, mk)),
               Call("InsertWith", LoopItems(f, mk)))

Delete ==
  /\ last = Idle
  /\ \E item \in Items :
       Publish(DeleteItem(heap, t, item), Call("Delete", <<item>>))

DeleteItems ==
  /\ last = Idle
  /\ \E ks \in Batches(t.less) :
       Publish(DeleteItemsOf(heap, t, Stamp(ks, 1)),
               Call("DeleteItems", Stamp(ks, 1)))

DeleteWith ==
  /\ last = Idle
  /\ \E f \in Fills(t.less) :
       Publish(DeleteWithErase(heap, t, LoopItems(f, 1)),
               Call("DeleteWith", LoopItems(f, 1)))

Reverse ==
  /\ last = Idle
  /\ Publish(ReverseTree(heap, t), Call("Reverse", <<>>))

SortedCloneCall ==
  /\ last = Idle
  /\ \E l \in SortLess :
       Publish(SortedClone(heap, t, l), Call("SortedClone", <<>>))

\* t.Fetch(item): the tree is only read; v and found are what it returned.
FetchCall ==
  /\ last = Idle
  /\ \E item \in Items :
       /\ last' = [Call("Fetch", <<item>>)
                   EXCEPT !.v = Fetch(heap, t, item).v,
                          !.found = Fetch(heap, t, item).found]
       /\ prev' = t
       /\ pre' = heap
       /\ UNCHANGED <<heap, t, iter, hist>>

\* A lookup only reads the tree: res is what it returned.
Looked(call, res, panic) ==
  /\ last' = [call EXCEPT !.v = res.v, !.found = res.found, !.panic = panic]
  /\ prev' = t
  /\ pre' = heap
  /\ UNCHANGED <<heap, t, iter, hist>>

\* t.Get(t.Cmp(x)) and t.Has(t.Cmp(x))
GetCall ==
  /\ last = Idle
  /\ \E x \in Items :
       Looked(Call("Get", <<x>>), Get(heap, t, CmpOf(t.less, x)),
              Get(heap, t, CmpOf(t.less, x)).panic)

HasCall ==
  /\ last = Idle
  /\ \E x \in Items :
       Looked(Call("Has", <<x>>), Has(heap, t, CmpOf(t.less, x)),
              Has(heap, t, CmpOf(t.less, x)).panic)

\* t.Min() and t.Max()
MinCall ==
  /\ last = Idle
  /\ Looked(Call("Min", <<>>), Min(heap, t), "")

MaxCall ==
  /\ last = Idle
  /\ Looked(Call("Max", <<>>), Max(heap, t), "")

Next ==
  \/ Settle
  \/ New \/ CreateWith
  \/ Insert \/ InsertWith
  \/ Delete \/ DeleteItems \/ DeleteWith
  \/ Reverse \/ SortedCloneCall
  \/ FetchCall
  \/ GetCall \/ HasCall
  \/ MinCall \/ MaxCall

Spec == Init /\ [][Next]_vars

\* The constructors and mutators alone: the tree keeps the key ordering.
MutatorNext ==
  \/ Settle
  \/ New \/ CreateWith
  \/ Insert \/ InsertWith
  \/ Delete \/ DeleteItems \/ DeleteWith

MutatorSpec == Init /\ [][MutatorNext]_vars

\* ------------------------------------------------------------------ iteration
\* t.Insert(item) with a single item
InsertKey ==
  /\ last = Idle
  /\ \E k \in Keys :
       Publish(InsertItems(heap, t, <<<<k, 1>>>>), Call("Insert", <<<<k, 1>>>>))

\* The tests a caller hands over as start and as stop: nil, or a TestMaker
\* on t.Cmp of a reference.
Starts(less) ==
  {NilTest} \cup {Lt(less, <<k, 1>>) : k \in Keys}
            \cup {Lte(less, <<k, 1>>) : k \in Keys}
Stops(less) ==
  {NilTest} \cup {Gt(less, <<k, 1>>) : k \in Keys}
            \cup {Gte(less, <<k, 1>>) : k \in Keys}

\* The visitors: true on the items with a key below k, false on the others.
Visitors == {TestOf({x \in Items : x[1] < k}) : k \in 1..(MaxKey + 1)}

\* The offsets and limits handed to OffsetAndLimit.
Offsets == 0..(MaxKey + 1)
Limits == (0 - 1)..(MaxKey + 1)

\* The iterator is a cmpIter or a rangeIter.
Live == iter.kind \in {"cmp", "range"}
NextOf(it) ==
  IF it.kind = "cmp" THEN iterNext(heap, it.obj) ELSE rangeNext(heap, it.obj)
PrevOf(it) ==
  IF it.kind = "cmp" THEN iterPrev(heap, it.obj) ELSE rangePrev(it.obj)
ReleaseOf(it) ==
  IF it.kind = "cmp" THEN Release(it.obj) ELSE rangeRelease(it.obj)
ItemPanics(it) ==
  IF it.kind = "cmp" THEN Len(it.obj.stack) = 0
  ELSE rangeWorkingNode(it.obj) = Nil
ItemOf(it) ==
  IF ItemPanics(it) THEN Zero
  ELSE IF it.kind = "cmp" THEN iterItem(heap, it.obj)
  ELSE rangeItem(heap, it.obj)
AscendingOf(it) == IF it.kind = "cmp" THEN it.obj.ascending ELSE TRUE

\* hist once op has turned the iterator before into the iterator after
Called(h, op, before, after) ==
  [h EXCEPT !.yield = IF after.obj.ok THEN Append(@, <<op, ItemOf(after)>>)
                      ELSE @,
            !.ended = IF @ = "" /\ after.obj.released THEN op ELSE @,
            !.endedAt = IF h.ended = "" /\ after.obj.released
                        THEN Len(h.yield) ELSE @,
            !.lastc = IterCall(op, after.obj.ok, before),
            !.got = NoGot]

\* t.Iterator(start, stop)
IteratorCall ==
  /\ last = Idle
  /\ iter = NoIter
  /\ \E start \in Starts(t.less), stop \in Stops(t.less) :
       /\ iter' = [kind |-> "cmp", obj |-> Iterator(t, start, stop)]
       /\ hist' = History([start |-> start, stop |-> stop])
  /\ UNCHANGED <<heap, t, prev, pre, last>>

\* t.OffsetAndLimit(offset, limit)
OffsetAndLimitCall ==
  /\ last = Idle
  /\ iter = NoIter
  /\ \E offset \in Offsets, limit \in Limits :
       /\ iter' = [kind |-> "range", obj |-> OffsetAndLimit(t, offset, limit)]
       /\ hist' = History([offset |-> offset, limit |-> limit])
  /\ UNCHANGED <<heap, t, prev, pre, last>>

\* iter.Next()
NextCall ==
  /\ Live
  /\ Len(hist.yield) <= MaxKey
  /\ iter' = [iter EXCEPT !.obj = NextOf(iter)]
  /\ hist' = Called(hist, "Next", iter, [iter EXCEPT !.obj = NextOf(iter)])
  /\ UNCHANGED <<heap, t, prev, pre, last>>

\* iter.Prev()
PrevCall ==
  /\ Live
  /\ Len(hist.yield) <= MaxKey
  /\ iter' = [iter EXCEPT !.obj = PrevOf(iter)]
  /\ hist' = Called(hist, "Prev", iter, [iter EXCEPT !.obj = PrevOf(iter)])
  /\ UNCHANGED <<heap, t, prev, pre, last>>

\* iter.Release()
ReleaseCall ==
  /\ Live
  /\ iter' = [iter EXCEPT !.obj = ReleaseOf(iter)]
  /\ hist' = [hist EXCEPT !.ended = IF @ = "" THEN "Release" ELSE @,
                          !.endedAt = IF hist.ended = "" THEN Len(hist.yield)
                                      ELSE @,
                          !.lastc = IterCall("Release", FALSE, iter),
                          !.got = NoGot]
  /\ UNCHANGED <<heap, t, prev, pre, last>>

\* iter.Item()
ItemCall ==
  /\ Live
  /\ hist' = [hist EXCEPT !.got = Got(ItemOf(iter), ItemPanics(iter))]
  /\ UNCHANGED <<heap, t, prev, pre, last, iter>>

\* A finished Range, After, Before or Walk: res.it is the iterator its loop
\* left, res.visited the items the visitor was called on.
Visited(made, res) ==
  /\ iter' = [kind |-> "visit", obj |-> res.it]
  /\ hist' = [History(made) EXCEPT !.yield = res.visited]
  /\ UNCHANGED <<heap, t, prev, pre, last>>

RangeCall ==
  /\ last = Idle
  /\ iter = NoIter
  /\ \E start \in Starts(t.less), stop \in Stops(t.less), visitor \in Visitors :
       Visited([op |-> "Range", start |-> start, stop |-> stop,
                visitor |-> visitor],
               RangeOver(heap, t, start, stop, visitor))

AfterCall ==
  /\ last = Idle
  /\ iter = NoIter
  /\ \E start \in Starts(t.less), visitor \in Visitors :
       Visited([op |-> "After", start |-> start, stop |-> NilTest,
                visitor |-> visitor],
               After(heap, t, start, visitor))

BeforeCall ==
  /\ last = Idle
  /\ iter = NoIter
  /\ \E stop \in Stops(t.less), visitor \in Visitors :
       Visited([op |-> "Before", start |-> NilTest, stop |-> stop,
                visitor |-> visitor],
               Before(heap, t, stop, visitor))

WalkCall ==
  /\ last = Idle
  /\ iter = NoIter
  /\ \E visitor \in Visitors :
       Visited([op |-> "Walk", start |-> NilTest, stop |-> NilTest,
                visitor |-> visitor],
               WalkOver(heap, t, visitor))

\* Trees grown item by item and reversed, and an iterator over one of them.
IterNext ==
  \/ Settle
  \/ InsertKey \/ Reverse
  \/ IteratorCall \/ OffsetAndLimitCall
  \/ NextCall \/ PrevCall \/ ReleaseCall \/ ItemCall
  \/ RangeCall \/ AfterCall \/ BeforeCall \/ WalkCall

IterSpec == Init /\ [][IterNext]_vars

\* Cursors of both kinds, moved and released, over trees grown item by item.
EndNext ==
  \/ Settle
  \/ InsertKey
  \/ IteratorCall \/ OffsetAndLimitCall
  \/ NextCall \/ PrevCall \/ ReleaseCall

EndSpec == Init /\ [][EndNext]_vars

\* An iterator that Iterator returned.
CursorNext ==
  \/ Settle
  \/ InsertKey \/ Reverse
  \/ IteratorCall
  \/ NextCall \/ PrevCall \/ ReleaseCall \/ ItemCall

CursorSpec == Init /\ [][CursorNext]_vars

\* An iterator that OffsetAndLimit returned.
OffsetNext ==
  \/ Settle
  \/ InsertKey \/ Reverse
  \/ OffsetAndLimitCall
  \/ NextCall \/ PrevCall \/ ReleaseCall \/ ItemCall

OffsetSpec == Init /\ [][OffsetNext]_vars

\* The calls that visit: Range, After, Before and Walk.
VisitNext ==
  \/ Settle
  \/ InsertKey \/ Reverse
  \/ RangeCall \/ AfterCall \/ BeforeCall \/ WalkCall

VisitSpec == Init /\ [][VisitNext]_vars

\* ------------------------------------------------------------------ race
\* TestCopyOnWriteRace: a reader walks a published tree with Next and Item
\* while a writer derives trees from it with InsertWith and Delete.  prev and
\* pre keep the tree the reader walks and the heap as it was when the reader
\* began; t is the latest tree the writer returned.  A batch of the writer
\* is in flight between its getNsp and its return: last then holds its
\* machine and the items its callback has yet to hand over, and the reader
\* may take steps between any two of them.

\* The writer starts no further batch once it has allocated RaceGrowth nodes.
RaceGrowth == MaxBatch

Writing(op, todo, m) == [op |-> op, items |-> todo, m |-> m]
InFlight == "m" \in DOMAIN last

\* iter := t.Iterator(nil, nil)
ReaderStart ==
  /\ last = Idle
  /\ iter = NoIter
  /\ iter' = [kind |-> "cmp", obj |-> Iterator(t, NilTest, NilTest)]
  /\ hist' = History([start |-> NilTest, stop |-> NilTest])
  /\ prev' = t
  /\ pre' = heap
  /\ UNCHANGED <<heap, t, last>>

\* The writer calls InsertWith or Delete on the reader's tree or on the
\* latest tree it derived: the call forks the tree and gets a nodeStack.
\* The callback of InsertWith is a loop upwards, as in the test.
WriterBegin ==
  /\ Live
  /\ last = Idle
  /\ Len(heap) < Len(pre) + RaceGrowth
  /\ \E base \in {t, prev} :
       \/ \E f \in {g \in Loops : g[3]} :
            last' = Writing("InsertWith", LoopItems(f, 2),
                            Machine(heap, Fork(base), FALSE))
       \/ \E k \in Keys :
            last' = Writing("Delete", <<<<k, 1>>>>,
                            Machine(heap, Fork(base), FALSE))
  /\ UNCHANGED <<heap, t, prev, pre, iter, hist>>

\* The batch in flight has written m2 for its next item.
WriterWrote(m2) ==
  /\ heap' = m2.heap
  /\ last' = Writing(last.op, Tail(last.items), m2)
  /\ UNCHANGED <<t, prev, pre, iter, hist>>

\* One insertOne or deleteOne of the batch in flight.
WriterStep ==
  /\ InFlight
  /\ last.items # <<>>
  /\ last.m.panic = ""
  /\ IF last.op = "InsertWith"
     THEN WriterWrote(insertOne(last.m, Head(last.items)))
     ELSE WriterWrote(deleteOne(last.m, Head(last.items)))

\* The batch in flight returns its tree.
WriterEnd ==
  /\ InFlight
  /\ last.items = <<>> \/ last.m.panic # ""
  /\ t' = IF last.m.panic = "" THEN TreeOf(last.m) ELSE t
  /\ last' = Idle
  /\ UNCHANGED <<heap, prev, pre, iter, hist>>

\* The collector runs only before the reader holds its tree.
RaceNext ==
  \/ iter = NoIter /\ Settle
  \/ InsertKey
  \/ ReaderStart
  \/ NextCall
  \/ WriterBegin \/ WriterStep \/ WriterEnd

RaceSpec == Init /\ [][RaceNext]_vars

\* ------------------------------------------------------------------ lookups
\* A CompareAgainst that answers as t.Cmp(x) does, but for the items with
\* the key bad, where it answers odd.
OddAt(less, x, bad, odd) ==
  [treeVal \in Items |-> IF treeVal[1] = bad THEN odd ELSE Cmp(less, x, treeVal)]

\* The comparators handed to Get and Has: the key 0 is the key of no item,
\* and the odd answers lie next to Less and next to Greater.
Comparators(less) ==
  {OddAt(less, <<k, 1>>, bad, odd) :
     k \in Keys, bad \in 0..MaxKey, odd \in {Less - 1, Greater + 1}}

\* t.Get(cmp) and t.Has(cmp) with any of them
GetWith ==
  /\ last = Idle
  /\ \E cmp \in Comparators(t.less) :
       Looked(Call("GetWith", <<cmp>>), Get(heap, t, cmp), Get(heap, t, cmp).panic)

HasWith ==
  /\ last = Idle
  /\ \E cmp \in Comparators(t.less) :
       Looked(Call("HasWith", <<cmp>>), Has(heap, t, cmp), Has(heap, t, cmp).panic)

LookupNext ==
  \/ Settle
  \/ InsertKey \/ Reverse
  \/ GetWith \/ HasWith

LookupSpec == Init /\ [][LookupNext]_vars

\* ------------------------------------------------------------------ deep trees
\* Trees over more keys than MaxKey, tall enough for a Delete to rotate a
\* node that is not the root: items carry the mark 1, the ordering is by key.
DeepKeys == 1..(MaxKey + 3)
DeepItems == DeepKeys \X {1}
olDeep == {p \in DeepItems \X DeepItems : p[1][1] < p[2][1]}
\* The callbacks handed to InsertWith and DeleteWith: loops over a key range,
\* upwards or downwards.
DeepLoops ==
  {f \in DeepKeys \X DeepKeys \X BOOLEAN : f[1] <= f[2] /\ (f[1] = f[2] => f[3])}

\* New(olDeep, item)
DeepNew ==
  /\ last = Idle
  /\ t.root = Nil
  /\ \E k \in DeepKeys :
       Publish(NewTree(olDeep, <<<<k, 1>>>>), Call("New", <<<<k, 1>>>>))

\* t.InsertWith(fill)
DeepInsert ==
  /\ last = Idle
  /\ t.less = olDeep
  /\ \E f \in DeepLoops :
       Publish(InsertWithFill(heap, t, LoopItems(f, 1)),
               Call("InsertWith", LoopItems(f, 1)))

\* t.DeleteWith(erase)
DeepDelete ==
  /\ last = Idle
  /\ t.less = olDeep
  /\ \E f \in DeepLoops :
       Publish(DeleteWithErase(heap, t, LoopItems(f, 1)),
               Call("DeleteWith", LoopItems(f, 1)))

DeepNext ==
  \/ Settle
  \/ DeepNew
  \/ DeepInsert \/ DeepDelete

DeepSpec == Init /\ [][DeepNext]_vars

\* ------------------------------------------------------------------ rotations
\* The root of a tree rotated in place, as the test of the rotations does it:
\* tree.root = tree.root.rotateLeft(); tree.root.l.setHeight();
\* tree.root.setHeight(), and the mirror image.
rootHeights(c, left) ==
  IF c.panic # "" THEN c
  ELSE setHeight(setHeight([c EXCEPT !.root = c.ret],
                           IF left THEN c.heap[c.ret].l ELSE c.heap[c.ret].r),
                 c.ret)

RootRotateLeft(hp, tr) ==
  rootHeights(rotateLeft(Machine(hp, tr, FALSE), tr.root), TRUE)
\* RootRotateRight handing the old root the outer child of the new one, not
\* the inner one.
RootRotateRightOuter(hp, tr) ==
  IF hp[tr.root].l = Nil
  THEN Panic(Machine(hp, tr, FALSE), "nil pointer dereference")
  ELSE rootHeights([Machine(hp, tr, FALSE) EXCEPT
                      !.heap[tr.root].l = hp[hp[tr.root].l].l,
                      !.heap[hp[tr.root].l].r = tr.root,
                      !.ret = hp[tr.root].l],
                   FALSE)

RootRotateRight(hp, tr) ==
  rootHeights(rotateRight(Machine(hp, tr, FALSE), tr.root), FALSE)

Rotations == {"rotateLeft", "rotateRight"}

\* A rotation of the tree the caller got from the rotation before: the
\* receiver of the first rotation stays in prev and pre.
Rotated(m, op) ==
  /\ heap' = m.heap
  /\ t' = IF m.panic = "" THEN TreeOf(m) ELSE t
  /\ last' = [Call(op, <<>>) EXCEPT !.panic = m.panic]
  /\ UNCHANGED <<prev, pre, iter, hist>>

RotateLeftCall ==
  /\ last = Idle
  /\ t.root # Nil
  /\ Publish(RootRotateLeft(heap, t), Call("rotateLeft", <<>>))

RotateRightCall ==
  /\ last = Idle
  /\ t.root # Nil
  /\ Publish(RootRotateRight(heap, t), Call("rotateRight", <<>>))

RotateRightBack ==
  /\ last.op = "rotateLeft"
  /\ last.panic = ""
  /\ Rotated(RootRotateRight(heap, t), "rotateLeft, rotateRight")

RotateLeftBack ==
  /\ last.op = "rotateRight"
  /\ last.panic = ""
  /\ Rotated(RootRotateLeft(heap, t), "rotateRight, rotateLeft")

\* A tree rotated once is rotated back before anything else is done with it.
RotateNext ==
  \/ (last.op \notin Rotations /\ Settle)
  \/ DeepNew
  \/ DeepInsert \/ DeepDelete
  \/ RotateLeftCall \/ RotateRightCall
  \/ RotateRightBack \/ RotateLeftBack

RotateSpec == Init /\ [][RotateNext]_vars

\* ------------------------------------------------------------------ generation stamps
\* The node variant that keeps generation and height in one uint64, genH.  A
\* uint64 is its eight bytes, the most significant first: w << 8 drops the
\* first byte and appends a zero byte, w >> 8 drops the last byte and puts
\* a zero byte in front, w & 0xff is the last byte.
\* n.gen(): n.genH >> 8
nodeGen(n) == <<0>> \o SubSeq(n.genH, 1, 7)

\* n.h(): n.genH & 0xff
nodeH(n) == n.genH[8]

\* ns.newNode(v): genH is (ns.gen << 8) | 0x01
genNewNode(nsgen, v) ==
  [l |-> Nil, r |-> Nil, genH |-> Tail(nsgen) \o <<1>>, i |-> v]

\* genCopy leaving the clone the word of the node it was made from.
genCopyUnstamped(hp, nsgen, n) ==
  IF nodeGen(hp[n]) = nsgen THEN [heap |-> hp, ret |-> n]
  ELSE [heap |-> Append(hp, hp[n]), ret |-> Len(hp) + 1]

\* ns.copy(n): the heap with the clone, if one was made, and the node
\* returned.  The clone's genH is (ns.gen << 8) | n.h().
genCopy(hp, nsgen, n) ==
  IF nodeGen(hp[n]) = nsgen THEN [heap |-> hp, ret |-> n]
  ELSE [heap |-> Append(hp, [l |-> hp[n].l, r |-> hp[n].r,
                             genH |-> Tail(nsgen) \o <<nodeH(hp[n])>>,
                             i |-> hp[n].i]),
        ret |-> Len(hp) + 1]

\* n.genH &= ^uint64(0xff); n.genH |= h, for an h of at most 0x1ff: the
\* last byte becomes h's low byte, and the bit above it is or-ed into the
\* byte before.
packHeight(w, x) ==
  [w EXCEPT ![8] = x % 256,
            ![7] = IF x \div 256 = 1 /\ @ % 2 = 0 THEN @ + 1 ELSE @]

\* n.setHeight()
genSetHeight(hp, n) ==
  [hp EXCEPT ![n].genH =
     packHeight(@, (IF hp[n].r # Nil /\ nodeH(hp[hp[n].r]) >=
                         (IF hp[n].l # Nil THEN nodeH(hp[hp[n].l]) ELSE 0)
                    THEN nodeH(hp[hp[n].r])
                    ELSE IF hp[n].l # Nil THEN nodeH(hp[hp[n].l]) ELSE 0) + 1)]

\* The generations a batch may carry: 56-bit values, the least and the
\* greatest among them.
Gens ==
  {<<0, a, a, a, a, a, a, b>> : a \in {0, 255}, b \in {0, 1, 255}}

\* The heights of the children a node is drawn with (0: no child), up to the
\* greatest height that leaves the parent's within a byte, and the heights
\* a node may have stored before setHeight is called on it.
ChildHeights == 0..MaxBatch \cup {254}
StoredHeights == 1..(MaxBatch + 1) \cup {255}

\* A node of generation g with the stored height x.
Stamped(g, x, l, r, v) ==
  [l |-> l, r |-> r, genH |-> Tail(g) \o <<x>>, i |-> v]

\* A call on the nodes: the batch's generation, the node handed over and
\* the node returned.
GenCall(op, g, n, ret) == [op |-> op, gen |-> g, n |-> n, ret |-> ret]

\* The items of the three nodes drawn, the children's first.
GenRoots == << <<1, 1>>, <<3, 1>>, <<2, 1>> >>

GenLive == last # Idle /\ last.op \in {"nodes", "newNode", "copy", "setHeight"}

\* Three nodes of one generation: a node at 3 and the children at 1 and 2
\* it may have, each child standing for a subtree of its height.  The calls
\* that follow allocate one node more at most.
GenNodes ==
  /\ last = Idle
  /\ heap = <<>>
  /\ \E g \in Gens, hl \in ChildHeights, hr \in ChildHeights,
        x \in StoredHeights :
       /\ heap' = << Stamped(g, IF hl = 0 THEN 1 ELSE hl, Nil, Nil, GenRoots[1]),
                     Stamped(g, IF hr = 0 THEN 1 ELSE hr, Nil, Nil, GenRoots[2]),
                     Stamped(g, x, IF hl = 0 THEN Nil ELSE 1,
                             IF hr = 0 THEN Nil ELSE 2, GenRoots[3]) >>
       /\ last' = GenCall("nodes", g, Nil, 3)
  /\ pre' = heap'
  /\ UNCHANGED <<t, prev, iter, hist>>

\* ns.newNode(v) by a batch of generation g
GenNewNodeCall ==
  /\ GenLive
  /\ Len(heap) = Len(GenRoots)
  /\ \E g \in Gens, k \in 1..MaxBatch :
       /\ heap' = Append(heap, genNewNode(g, <<k, 1>>))
       /\ last' = GenCall("newNode", g, Nil, Len(heap) + 1)
  /\ pre' = heap
  /\ UNCHANGED <<t, prev, iter, hist>>

\* ns.copy(n) by a batch of generation g
GenCopyCall ==
  /\ GenLive
  /\ \E g \in Gens, n \in 1..Len(heap) :
       /\ Len(genCopy(heap, g, n).heap) <= Len(GenRoots) + 1
       /\ heap' = genCopy(heap, g, n).heap
       /\ last' = GenCall("copy", g, n, genCopy(heap, g, n).ret)
  /\ pre' = heap
  /\ UNCHANGED <<t, prev, iter, hist>>

\* n.setHeight()
GenSetHeightCall ==
  /\ GenLive
  /\ \E n \in Len(GenRoots)..Len(heap) :
       /\ heap' = genSetHeight(heap, n)
       /\ last' = GenCall("setHeight", nodeGen(heap[n]), n, n)
  /\ pre' = heap
  /\ UNCHANGED <<t, prev, iter, hist>>

GenNext ==
  \/ GenNodes
  \/ GenNewNodeCall \/ GenCopyCall \/ GenSetHeightCall

GenSpec == Init /\ [][GenNext]_vars

\* ------------------------------------------------------------------ properties
\* Neither is less than the other: the tree's notion of "the same element".
Equiv(less, a, b) == ~LessThan(less, a, b) /\ ~LessThan(less, b, a)

\* The ascending walk of a Tree on a heap, and its contents as a set.
Walk(hp, tr) == InOrder(hp, tr.root)
Contents(hp, tr) == Range(Walk(hp, tr))

\* The elements of q equivalent to x.
EquivIn(less, q, x) == {e \in Range(q) : Equiv(less, e, x)}

\* q is strictly increasing under less.
Increasing(less, q) ==
  \A j, k \in 1..Len(q) : j < k => LessThan(less, q[j], q[k])

\* Every node under n sits between its left and its right subtree.
SearchTree(hp, less, n) ==
  \A a \in Reach(hp, n) :
    /\ \A b \in Reach(hp, hp[a].l) : LessThan(less, hp[b].i, hp[a].i)
    /\ \A b \in Reach(hp, hp[a].r) : LessThan(less, hp[a].i, hp[b].i)

\* The height of the subtree at n, counted and not read from the nodes.
RECURSIVE RealHeight(_, _)
Higher(a, b) == IF a >= b THEN a ELSE b
RealHeight(hp, n) ==
  IF n = Nil THEN 0
  ELSE 1 + Higher(RealHeight(hp, hp[n].l), RealHeight(hp, hp[n].r))

\* The shape of the subtree at n: stored heights and child structure.
RECURSIVE Shape(_, _)
Shape(hp, n) ==
  IF n = Nil THEN <<>> ELSE <<hp[n].h, Shape(hp, hp[n].l), Shape(hp, hp[n].r)>>

\* The reference set: insert adds or replaces the equivalent element, delete
\* removes it.
RefInsert(less, S, x) == {y \in S : ~Equiv(less, y, x)} \cup {x}
RefDelete(less, S, x) == {y \in S : ~Equiv(less, y, x)}

RECURSIVE RefInsertAll(_, _, _)
RefInsertAll(less, S, items) ==
  IF items = <<>> THEN S
  ELSE RefInsertAll(less, RefInsert(less, S, Head(items)), Tail(items))

RECURSIVE RefDeleteAll(_, _, _)
RefDeleteAll(less, S, items) ==
  IF items = <<>> THEN S
  ELSE RefDeleteAll(less, RefDelete(less, S, Head(items)), Tail(items))

\* The walk of tr is the sorted contents of the set S.
SortedContents(hp, tr, S) ==
  /\ Increasing(tr.less, Walk(hp, tr))
  /\ Contents(hp, tr) = S
  /\ Len(Walk(hp, tr)) = Cardinality(S)

\* items inserted one at a time, each through a call of Insert of its own.
RECURSIVE insertEach(_, _, _)
insertEachNext(m, items) == insertEach(m.heap, TreeOf(m), items)
insertEach(hp, tr, items) ==
  IF items = <<>> THEN Machine(hp, tr, FALSE)
  ELSE insertEachNext(InsertItems(hp, tr, <<Head(items)>>), Tail(items))

\* items deleted one at a time, each through a call of Delete of its own;
\* allFound tells whether every call so far reported found.
RECURSIVE deleteEach(_, _, _, _)
deleteEachNext(m, items, allFound) ==
  deleteEach(m.heap, TreeOf(m), items, allFound /\ m.found /\ m.panic = "")
deleteEach(hp, tr, items, allFound) ==
  IF items = <<>>
  THEN [heap |-> hp, root |-> tr.root, count |-> tr.count, allFound |-> allFound]
  ELSE deleteEachNext(DeleteItem(hp, tr, Head(items)), Tail(items), allFound)

\* The walk of the tree such a chain of calls ends with.
WalkOf(m) == InOrder(m.heap, m.root)

\* Such a chain of Deletes has emptied the tree, every call reporting found.
Emptied(d) == d.root = Nil /\ d.count = 0 /\ d.allFound

Backwards(q) == [j \in 1..Len(q) |-> q[Len(q) + 1 - j]]

\* q with the elements equivalent to x replaced by x, and q without e.
Replaced(less, q, x) ==
  [j \in 1..Len(q) |-> IF Equiv(less, q[j], x) THEN x ELSE q[j]]
Without(q, e) == SelectSeq(q, LAMBDA y : y # e)

Inserters == {"Insert", "InsertWith"}
Deleters == {"Delete", "DeleteWith", "DeleteItems"}
Constructors == {"New", "CreateWith"}

\* C1: in the tree any call returned, the in-order traversal is strictly
\* increasing under the tree's own ordering: every element of a left
\* subtree is less than its node, every element of a right subtree greater,
\* and no two stored elements are equivalent.
C1_InOrderStrictlyIncreasing ==
  /\ Increasing(t.less, Walk(heap, t))
  /\ SearchTree(heap, t.less, t.root)

\* A Delete that found its element in a tree of four or more and rebalanced.
C1_Witness ==
  /\ last.op = "Delete" /\ last.found /\ last.rebalanced
  /\ prev.count >= 4
  /\ t.less # ol

\* C2: in the tree any call returned, the subtrees of every reachable node
\* differ in height by at most one, an absent child having height 0.
C2_Balanced ==
  \A a \in Reach(heap, t.root) :
    RealHeight(heap, heap[a].r) - RealHeight(heap, heap[a].l) \in {-1, 0, 1}

\* An insert below a node with a single child: only a rotation keeps the
\* three nodes balanced.
C2_Witness ==
  /\ last.op = "Insert" /\ Len(last.items) = 1
  /\ prev.count = 2 /\ t.count = 3
  /\ last.rebalanced
  /\ heap[t.root].i # pre[prev.root].i

\* C3: in the tree any call returned, every stored height is one more than
\* the greater of the children's heights (0 for an absent child); a node of
\* height 1 has no children, a node of height above 1 has at least one, and
\* no stored height is 0.
C3_StoredHeight ==
  \A a \in Reach(heap, t.root) :
    /\ heap[a].h = 1 + Higher(height(heap, heap[a].l), height(heap, heap[a].r))
    /\ heap[a].h = RealHeight(heap, a)
    /\ heap[a].h = 1 => heap[a].l = Nil /\ heap[a].r = Nil
    /\ heap[a].h > 1 => heap[a].l # Nil \/ heap[a].r # Nil
    /\ heap[a].h # 0

\* An insert that took a tree of three nodes to height 3, the heights along
\* its path being set again.
C3_Witness ==
  /\ last.op \in Inserters /\ last.rebalanced
  /\ prev.count = 3
  /\ t.root # Nil /\ heap[t.root].h = 3

\* C4: Len() is the number of nodes reachable from the root; an insert of
\* an element with no equivalent raises it by one, an insert of an
\* equivalent element leaves it alone, a Delete that finds its element
\* lowers it by one, one that does not leaves it alone, and Reverse and
\* SortedClone preserve it.
C4_LenCountsNodes ==
  /\ t.count = Cardinality(Reach(heap, t.root))
  /\ t.count = Len(Preorder(heap, t.root))
  /\ (last.op = "Insert" /\ Len(last.items) = 1) =>
       t.count = IF EquivIn(prev.less, Walk(pre, prev), last.items[1]) = {}
                 THEN prev.count + 1 ELSE prev.count
  /\ last.op = "Delete" =>
       /\ last.found = (EquivIn(prev.less, Walk(pre, prev), last.items[1]) # {})
       /\ t.count = IF last.found THEN prev.count - 1 ELSE prev.count
  /\ last.op \in {"Reverse", "SortedClone"} => t.count = prev.count

\* A SortedClone of a full tree under another ordering.
C4_Witness ==
  /\ last.op = "SortedClone"
  /\ prev.count = MaxKey
  /\ t.less # prev.less

\* C5: a call of Insert, InsertWith, Delete, DeleteWith or DeleteItems
\* writes no field of a node that existed before it, so the receiver has
\* the root, the Len and the in-order sequence it had.
C5_ReceiverUnchanged ==
  last.op \in Inserters \cup Deleters =>
    /\ \A a \in DOMAIN pre : heap[a] = pre[a]
    /\ Walk(heap, prev) = Walk(pre, prev)
    /\ Shape(heap, prev.root) = Shape(pre, prev.root)
    /\ prev.count = Cardinality(Reach(heap, prev.root))

\* A Delete of an element other than the root's that left another element
\* at the root: the rebalance rotated there, and copied the root's other
\* child, which the descent had not visited.
C5_Witness ==
  /\ last.op = "Delete" /\ last.found /\ last.rebalanced
  /\ t.root # Nil
  /\ last.deleted # pre[prev.root].i
  /\ heap[t.root].i # pre[prev.root].i

\* The tree a constructor starts from, and the one a mutator starts from.
Receiver == IF last.op \in Constructors THEN EmptyTree(ol) ELSE prev

\* C6 (under MutatorSpec): after New, CreateWith, Insert or InsertWith the
\* ascending walk is the
\* sorted contents of the reference set with the items inserted in turn,
\* after Delete, DeleteWith or DeleteItems with the items deleted in turn;
\* and a batched call leaves the walk that its items leave when each goes
\* through a single-item call of its own.
C6_RefinesReferenceSet ==
  /\ last.op \in Constructors \cup Inserters =>
       /\ last.panic = ""
       /\ SortedContents(heap, t,
            RefInsertAll(t.less, Contents(pre, Receiver), last.items))
       /\ Walk(heap, t) = WalkOf(insertEach(pre, Receiver, last.items))
  /\ last.op \in Deleters =>
       /\ last.panic = ""
       /\ SortedContents(heap, t,
            RefDeleteAll(t.less, Contents(pre, prev), last.items))
       /\ Walk(heap, t) = WalkOf(deleteEach(pre, prev, last.items, TRUE))

\* A batch of two that deleted two elements from a tree.
C6_Witness ==
  /\ last.op = "DeleteItems" /\ Len(last.items) = 2
  /\ last.ndeleted = 2
  /\ t.count >= 2

\* C7: Fetch(x) returns the stored element equivalent to x and true when
\* there is one, wherever it sits in the tree, and the zero value and false
\* when there is none.
C7_FetchFindsStored ==
  last.op = "Fetch" =>
    IF EquivIn(t.less, Walk(heap, t), last.items[1]) # {}
    THEN last.found /\ last.v \in EquivIn(t.less, Walk(heap, t), last.items[1])
    ELSE ~last.found /\ last.v = Zero

\* C8: an insert of an element equivalent to a stored one overwrites in
\* place: the Len and the shape stay, the walk is the old one with the new
\* value where the equivalent one was, nothing is rebalanced; and of two
\* equivalent elements of one batch the later is the one stored.
C8_EquivalentInsertOverwrites ==
  /\ (/\ last.op = "Insert" /\ Len(last.items) = 1
      /\ EquivIn(prev.less, Walk(pre, prev), last.items[1]) # {}) =>
       /\ t.count = prev.count
       /\ Shape(heap, t.root) = Shape(pre, prev.root)
       /\ Walk(heap, t) = Replaced(prev.less, Walk(pre, prev), last.items[1])
       /\ ~last.rebalanced
  /\ (/\ last.op \in {"New", "Insert"} /\ Len(last.items) = 2
      /\ Equiv(t.less, last.items[1], last.items[2])) =>
       EquivIn(t.less, Walk(heap, t), last.items[1]) = {last.items[2]}

\* An insert into a tree of three or more of an element whose equivalent,
\* another value, was stored.
C8_Witness ==
  /\ last.op = "Insert" /\ Len(last.items) = 1
  /\ prev.count >= 3
  /\ EquivIn(prev.less, Walk(pre, prev), last.items[1]) # {}
  /\ last.items[1] \notin Contents(pre, prev)
  /\ last.items[1] \in Contents(heap, t)

\* C9: Delete(x) on a tree that stores an element e equivalent to x returns
\* e as it was stored and true, and a tree with the elements of the receiver
\* but e, its Len one less; deleting every stored element in turn, each
\* through a Delete of its own, ends with Len 0 and no root, every call
\* having reported found.
C9_DeleteReturnsStored ==
  /\ (/\ last.op = "Delete"
      /\ EquivIn(prev.less, Walk(pre, prev), last.items[1]) # {}) =>
       /\ last.panic = ""
       /\ last.found
       /\ last.deleted \in EquivIn(prev.less, Walk(pre, prev), last.items[1])
       /\ Walk(heap, t) = Without(Walk(pre, prev), last.deleted)
       /\ t.count = prev.count - 1
  /\ last.op \in {"", "Delete"} =>
       /\ Emptied(deleteEach(heap, t, Walk(heap, t), TRUE))
       /\ Emptied(deleteEach(heap, t, Backwards(Walk(heap, t)), TRUE))

\* A Delete of the element at the root of a tree of height 3, called with an
\* equivalent element that is another value than the one stored.
C9_Witness ==
  /\ last.op = "Delete" /\ last.found
  /\ last.deleted # last.items[1]
  /\ pre[prev.root].h = 3
  /\ pre[prev.root].i = last.deleted

\* C10: Delete(x) on a tree that stores no element equivalent to x, the
\* empty tree among them, returns the zero value and false, and a tree with
\* the root node, the Len and the contents of the receiver; nothing panics.
C10_DeleteAbsentChangesNothing ==
  (/\ last.op = "Delete"
   /\ EquivIn(prev.less, Walk(pre, prev), last.items[1]) = {}) =>
    /\ last.panic = ""
    /\ ~last.found
    /\ last.deleted = Zero
    /\ t.root = prev.root
    /\ t.count = prev.count
    /\ Walk(heap, t) = Walk(pre, prev)

\* A Delete that found nothing after a descent that copied two nodes or
\* more.
C10_Witness ==
  /\ last.op = "Delete" /\ ~last.found
  /\ prev.count >= 2
  /\ last.copies >= 2

\* C11: Get(t.Cmp(x)) returns the stored element equivalent to x and true
\* when t stores one, the zero value and false when it stores none, and
\* does not panic; Has(t.Cmp(x)) returns the boolean that Get returns.
C11_GetFindsEquivalent ==
  /\ last.op = "Get" =>
       /\ last.panic = ""
       /\ last.found = (EquivIn(t.less, Walk(heap, t), last.items[1]) # {})
       /\ last.found => last.v \in EquivIn(t.less, Walk(heap, t), last.items[1])
       /\ ~last.found => last.v = Zero
       /\ Has(heap, t, CmpOf(t.less, last.items[1])).found = last.found
  /\ last.op = "Has" =>
       /\ last.panic = ""
       /\ last.found = (EquivIn(t.less, Walk(heap, t), last.items[1]) # {})
       /\ Get(heap, t, CmpOf(t.less, last.items[1])).found = last.found

\* A Get that found, below the root of a tree of three or more, a stored
\* element that is another value than the reference.
C11_Witness ==
  /\ last.op = "Get" /\ last.found
  /\ last.v # last.items[1]
  /\ t.count >= 3
  /\ heap[t.root].i # last.v

\* C12: Min() returns true and the stored element that is less than every
\* other under the tree's ordering, Max() true and the one every other is
\* less than; on an empty tree both return the zero value and false.  The
\* ordering of a tree that Reverse returned is the negated one.
C12_MinMaxAreExtremes ==
  /\ (last.op \in {"Min", "Max"} /\ t.root = Nil) =>
       ~last.found /\ last.v = Zero
  /\ (last.op = "Min" /\ t.root # Nil) =>
       /\ last.found
       /\ last.v \in Contents(heap, t)
       /\ \A e \in Contents(heap, t) \ {last.v} : LessThan(t.less, last.v, e)
  /\ (last.op = "Max" /\ t.root # Nil) =>
       /\ last.found
       /\ last.v \in Contents(heap, t)
       /\ \A e \in Contents(heap, t) \ {last.v} : LessThan(t.less, e, last.v)

\* Max() on a tree of three or more in the negated ordering: the element
\* returned has the least key.
C12_Witness ==
  /\ last.op = "Max" /\ last.found
  /\ t.less = ReverseLess(ol)
  /\ t.count >= 3
  /\ \A e \in Contents(heap, t) : last.v[1] <= e[1]

\* ------------------------------------------------------------------ iteration
\* The items and the calls of hist.yield.
YieldItems == [j \in 1..Len(hist.yield) |-> hist.yield[j][2]]
YieldOps == {hist.yield[j][1] : j \in 1..Len(hist.yield)}

\* a is the beginning of b
IsPrefix(a, b) == Len(a) <= Len(b) /\ \A j \in 1..Len(a) : a[j] = b[j]

\* Neither start nor stop is true of x.
InRange(made, x) == ~Holds(made.start, x) /\ ~Holds(made.stop, x)

\* The stored elements in range, ascending.
Expected == SelectSeq(Walk(heap, t), LAMBDA x : InRange(hist.made, x))

\* The elements in range below x and above x, ascending.
BelowIn(x) == SelectSeq(Expected, LAMBDA y : LessThan(t.less, y, x))
AboveIn(x) == SelectSeq(Expected, LAMBDA y : LessThan(t.less, x, y))

\* The elements of q at positions offset, offset+1, ... (the first being
\* position 0), limit of them at most when limit is not negative.
SliceLen(q, offset, limit) ==
  IF offset >= Len(q) THEN 0
  ELSE IF limit < 0 \/ limit > Len(q) - offset THEN Len(q) - offset
  ELSE limit
Slice(q, offset, limit) ==
  [j \in 1..SliceLen(q, offset, limit) |-> q[offset + j]]

\* q up to and with its first element that visitor is false of
RECURSIVE UntilFalse(_, _)
UntilFalse(q, visitor) ==
  IF q = <<>> THEN <<>>
  ELSE IF ~Holds(visitor, Head(q)) THEN <<Head(q)>>
  ELSE <<Head(q)>> \o UntilFalse(Tail(q), visitor)

\* C13: with start true on a lower segment of the order and stop true on an
\* upper one (or nil), the items an iterator yields to Next calls alone are
\* the beginning of the stored elements in range, ascending, and all of
\* them once Next has returned false; so a stored r in range of stop is
\* yielded under start = Lt(r) and not under Lte(r), a stored r in range of
\* start is yielded under stop = Gt(r) and not under Gte(r), and the first
\* Next returns false when no element is in range.
C13_NextYieldsRange ==
  (iter.kind = "cmp" /\ YieldOps \subseteq {"Next"}
                     /\ hist.ended \in {"", "Next"}) =>
    /\ IsPrefix(YieldItems, Expected)
    /\ hist.ended = "Next" =>
         /\ YieldItems = Expected
         /\ \A r \in Contents(heap, t) :
              /\ (hist.made.start = Lt(t.less, r) /\ ~Holds(hist.made.stop, r))
                   => r \in Range(YieldItems)
              /\ hist.made.start = Lte(t.less, r) => r \notin Range(YieldItems)
              /\ (hist.made.stop = Gt(t.less, r) /\ ~Holds(hist.made.start, r))
                   => r \in Range(YieldItems)
              /\ hist.made.stop = Gte(t.less, r) => r \notin Range(YieldItems)
    /\ (Expected = <<>> /\ hist.lastc.op = "Next") => ~hist.lastc.ok

\* Next calls to the end that yielded two elements or more, some stored
\* element being left out by start and some by stop.
C13_Witness ==
  /\ iter.kind = "cmp" /\ YieldOps = {"Next"} /\ hist.ended = "Next"
  /\ Len(hist.yield) >= 2
  /\ \E x \in Contents(heap, t) : Holds(hist.made.start, x)
  /\ \E x \in Contents(heap, t) : Holds(hist.made.stop, x)

\* C14: the items an iterator yields to Prev calls alone are the beginning
\* of the stored elements in range, descending, and all of them once Prev
\* has returned false; the first Prev returns false when no element is in
\* range.
C14_PrevYieldsRange ==
  (iter.kind = "cmp" /\ YieldOps \subseteq {"Prev"}
                     /\ hist.ended \in {"", "Prev"}) =>
    /\ IsPrefix(YieldItems, Backwards(Expected))
    /\ hist.ended = "Prev" => YieldItems = Backwards(Expected)

\* C15: a Prev that follows a Next that returned true with the cursor on x
\* returns true with the cursor on the greatest element in range below x,
\* or false when there is none; a Next that follows such a Prev returns
\* true with the cursor on the least element in range above x, or false.
C15_TurnMovesOneStep ==
  /\ (/\ iter.kind = "cmp" /\ hist.lastc.op = "Prev"
      /\ hist.lastc.was.obj.stack # <<>> /\ hist.lastc.was.obj.ascending) =>
       IF BelowIn(ItemOf(hist.lastc.was)) = <<>> THEN ~hist.lastc.ok
       ELSE /\ hist.lastc.ok
            /\ ItemOf(iter) = BelowIn(ItemOf(hist.lastc.was))[
                                 Len(BelowIn(ItemOf(hist.lastc.was)))]
  /\ (/\ iter.kind = "cmp" /\ hist.lastc.op = "Next"
      /\ hist.lastc.was.obj.stack # <<>> /\ ~hist.lastc.was.obj.ascending) =>
       IF AboveIn(ItemOf(hist.lastc.was)) = <<>> THEN ~hist.lastc.ok
       ELSE /\ hist.lastc.ok
            /\ ItemOf(iter) = AboveIn(ItemOf(hist.lastc.was))[1]

\* C16: an iterator from Iterator(nil, nil) that took Next calls until one
\* returned false and then Prev calls until one returned false yielded to
\* the Prev calls what it yielded to the Next calls, backwards.
C16_NextThenPrevSymmetric ==
  (/\ iter.kind = "cmp"
   /\ hist.made.start.isNil /\ hist.made.stop.isNil
   /\ hist.ended = "Next"
   /\ \A j \in 1..Len(hist.yield) :
        hist.yield[j][1] = IF j <= hist.endedAt THEN "Next" ELSE "Prev"
   /\ hist.lastc.op = "Prev" /\ ~hist.lastc.ok) =>
    SubSeq(YieldItems, hist.endedAt + 1, Len(hist.yield))
      = Backwards(SubSeq(YieldItems, 1, hist.endedAt))

\* C16 as the code has it: the Next that returned false released the
\* iterator, so each Prev after it returns false and the Prev calls yield
\* nothing, whatever the Next calls yielded.
C16_ExhaustedYieldsNothingBack ==
  (/\ iter.kind = "cmp"
   /\ hist.made.start.isNil /\ hist.made.stop.isNil
   /\ hist.ended = "Next"
   /\ \A j \in 1..Len(hist.yield) :
        hist.yield[j][1] = IF j <= hist.endedAt THEN "Next" ELSE "Prev"
   /\ hist.lastc.op = "Prev") =>
    /\ ~hist.lastc.ok
    /\ iter.obj.released
    /\ Len(hist.yield) = hist.endedAt
    /\ SubSeq(YieldItems, 1, hist.endedAt) = Walk(heap, t)

\* A Prev on an iterator whose Next calls went through a tree of three
\* elements or more to the end.
C16_Witness ==
  /\ iter.kind = "cmp"
  /\ hist.made.start.isNil /\ hist.made.stop.isNil
  /\ hist.ended = "Next" /\ hist.endedAt >= 3
  /\ YieldOps = {"Next"}
  /\ hist.lastc.op = "Prev"

C18_VisitStopsAtFalse ==
  iter.kind = "visit" =>
    /\ hist.yield = UntilFalse(Expected, hist.made.visitor)
    /\ \A j \in 1..(Len(hist.yield) - 1) : Holds(hist.made.visitor, hist.yield[j])
    /\ iter.obj.released /\ ~iter.obj.ok

\* A Range whose visitor returned false for the second element of three or
\* more in range.
C18_Witness ==
  /\ iter.kind = "visit" /\ hist.made.op = "Range"
  /\ ~hist.made.start.isNil /\ ~hist.made.stop.isNil
  /\ Len(hist.yield) = 2
  /\ ~Holds(hist.made.visitor, hist.yield[2])
  /\ Len(Expected) >= 3

\* C19: the items an iterator from OffsetAndLimit(offset, limit), offset not
\* negative, yields are the beginning of the stored elements at positions
\* offset to offset+limit-1 (to the last when limit is -1), ascending, and
\* all of them once Next has returned false; after that Next returns false.
C19_OffsetAndLimitSlice ==
  iter.kind = "range" =>
    /\ YieldOps \subseteq {"Next"}
    /\ IsPrefix(YieldItems,
                Slice(Walk(heap, t), hist.made.offset, hist.made.limit))
    /\ hist.ended = "Next" =>
         YieldItems = Slice(Walk(heap, t), hist.made.offset, hist.made.limit)
    /\ (hist.lastc.op = "Next" /\ hist.lastc.was.obj.released) =>
         ~hist.lastc.ok
    /\ (hist.lastc.op = "Next" /\ ~hist.lastc.ok) => iter.obj.released

\* Next calls to the end on OffsetAndLimit(1, 2) or more on a tree that
\* holds elements beyond the limit.
C19_Witness ==
  /\ iter.kind = "range" /\ hist.ended = "Next"
  /\ hist.made.offset >= 1 /\ hist.made.limit >= 2
  /\ Len(hist.yield) = hist.made.limit
  /\ hist.made.offset + hist.made.limit < t.count

\* C20: Prev on an iterator from OffsetAndLimit returns false and leaves
\* offset, limit, the stack and so the current item as they were; the Next
\* after it does what it would have done without it.
C20_RangePrevIsInert ==
  (iter.kind = "range" /\ hist.lastc.op = "Prev") =>
    /\ ~hist.lastc.ok
    /\ iter.obj.offset = hist.lastc.was.obj.offset
    /\ iter.obj.limit = hist.lastc.was.obj.limit
    /\ iter.obj.stack = hist.lastc.was.obj.stack
    /\ iter.obj.released = hist.lastc.was.obj.released
    /\ ItemPanics(iter) = ItemPanics(hist.lastc.was)
    /\ ItemOf(iter) = ItemOf(hist.lastc.was)
    /\ rangeNext(heap, iter.obj) = rangeNext(heap, hist.lastc.was.obj)
    /\ IsPrefix(YieldItems,
                Slice(Walk(heap, t), hist.made.offset, hist.made.limit))

\* A Prev between two Next calls that returned true.
C20_Witness ==
  /\ iter.kind = "range" /\ hist.lastc.op = "Prev"
  /\ Len(hist.yield) >= 2
  /\ hist.lastc.was.obj.ok
  /\ Len(hist.lastc.was.obj.stack) >= 2
  /\ rangeNext(heap, iter.obj).ok

\* ------------------------------------------------------------------ Reverse
\* The batch m ended without a panic in a tree that holds exactly S, sorted.
HoldsSorted(m, S) ==
  /\ m.panic = ""
  /\ SortedContents(m.heap, TreeOf(m), S)
  /\ m.count = Cardinality(S)

\* Lookups, Inserts and Deletes of x on tr follow tr's own ordering.
FollowsOrdering(hp, tr, x) ==
  /\ Get(hp, tr, CmpOf(tr.less, x)).panic = ""
  /\ Get(hp, tr, CmpOf(tr.less, x)).found = (EquivIn(tr.less, Walk(hp, tr), x) # {})
  /\ Get(hp, tr, CmpOf(tr.less, x)).found =>
       Get(hp, tr, CmpOf(tr.less, x)).v \in EquivIn(tr.less, Walk(hp, tr), x)
  /\ HoldsSorted(InsertItems(hp, tr, <<x>>), RefInsert(tr.less, Contents(hp, tr), x))
  /\ HoldsSorted(DeleteItem(hp, tr, x), RefDelete(tr.less, Contents(hp, tr), x))
  /\ DeleteItem(hp, tr, x).found = (EquivIn(tr.less, Walk(hp, tr), x) # {})

\* C21: the ascending walk of t.Reverse() is the ascending walk of t read
\* backwards, t.Reverse().Len() is t.Len(), and lookups, inserts and deletes
\* on the reversed tree follow the negated ordering.
C21_ReverseWalksBackwards ==
  last.op = "Reverse" =>
    /\ last.panic = ""
    /\ Walk(heap, t) = Backwards(Walk(pre, prev))
    /\ t.count = prev.count
    /\ t.count = Len(Walk(heap, t))
    /\ t.less = ReverseLess(prev.less)
    /\ \A a, b \in Items : LessThan(t.less, a, b) = LessThan(prev.less, b, a)
    /\ SearchTree(heap, t.less, t.root)
    /\ \A x \in Items : FollowsOrdering(heap, t, x)

\* A tree of three or more elements has been reversed.
C21_Witness ==
  /\ last.op = "Reverse"
  /\ prev.count >= 3
  /\ Walk(heap, t) # Walk(pre, prev)

\* The batch m, run on heap hp, left the nodes under other as they were and
\* returned a tree that holds none of them.
Apart(m, hp, other) ==
  /\ m.panic = ""
  /\ \A a \in Reach(hp, other) : m.heap[a] = hp[a]
  /\ Reach(m.heap, m.root) \cap Reach(hp, other) = {}

\* C22: no node reachable from t.Reverse().root is reachable from t.root, t
\* is unchanged by Reverse, and a later Insert or Delete on either tree
\* leaves the nodes of the other alone.
C22_ReverseSharesNoNode ==
  last.op = "Reverse" =>
    /\ Reach(heap, t.root) \cap Reach(pre, prev.root) = {}
    /\ SubSeq(heap, 1, Len(pre)) = pre
    /\ Walk(heap, prev) = Walk(pre, prev)
    /\ \A x \in Items :
         /\ Apart(InsertItems(heap, t, <<x>>), heap, prev.root)
         /\ Apart(DeleteItem(heap, t, x), heap, prev.root)
         /\ Apart(InsertItems(heap, prev, <<x>>), heap, t.root)
         /\ Apart(DeleteItem(heap, prev, x), heap, t.root)

\* Both the reversed tree and its source have nodes below their roots.
C22_Witness ==
  /\ last.op = "Reverse"
  /\ prev.count >= 3
  /\ Cardinality(Reach(heap, t.root) \cup Reach(heap, prev.root)) >= 6

\* The batch m produced the receiver of the last call over again.
SameAsReceiver(m) ==
  /\ m.panic = ""
  /\ WalkOf(m) = Walk(pre, prev)
  /\ Shape(m.heap, m.root) = Shape(pre, prev.root)
  /\ m.count = prev.count
  /\ m.less = prev.less

\* C23: t.Reverse().Reverse() has the same ascending walk as t, under the
\* original ordering, and the same shape as t.
C23_ReverseIsInvolution ==
  last.op = "Reverse" => SameAsReceiver(ReverseTree(heap, t))

\* The tree reversed twice is not its own mirror image.
C23_Witness ==
  /\ last.op = "Reverse"
  /\ prev.count >= 3
  /\ Shape(heap, t.root) # Shape(pre, prev.root)


\* ------------------------------------------------------------------ SortBy
\* An ordering by the mark alone, and the orderings SortBy is checked with.
byMark == {p \in Items \X Items : p[1][2] < p[2][2]}
SortOrders == SortLess \cup {byMark}

\* less compares by l first and falls back to prevLess when l considers the
\* two items equal.
Composite(less, l, prevLess) ==
  \A a, b \in Items :
    LessThan(less, a, b) =
      (\/ LessThan(l, a, b)
       \/ ~LessThan(l, a, b) /\ ~LessThan(l, b, a) /\ LessThan(prevLess, a, b))

\* e is an empty tree in the composite ordering.
EmptySorted(e, tr, l) ==
  /\ e.root = Nil
  /\ e.count = 0
  /\ Composite(e.less, l, tr.less)

\* The batch m, run on heap hp, left a tree that holds the elements of tr
\* sorted by the composite ordering, and left tr as it was.
SortedFrom(m, hp, tr, l) ==
  /\ m.panic = ""
  /\ Composite(m.less, l, tr.less)
  /\ m.count = tr.count
  /\ Len(WalkOf(m)) = tr.count
  /\ Range(WalkOf(m)) = Contents(hp, tr)
  /\ Increasing(m.less, WalkOf(m))
  /\ SubSeq(m.heap, 1, Len(hp)) = hp
  /\ Reach(m.heap, m.root) \cap Reach(hp, tr.root) = {}

\* C24: SortBy(l) returns an empty tree whose ordering compares by l first
\* and falls back to the receiver's ordering; SortedClone(l) returns a tree
\* that holds exactly the receiver's elements, its walk sorted by that
\* ordering, and leaves the receiver unchanged.
C24_SortedCloneSortsByComposite ==
  last.op = "SortedClone" =>
    /\ last.panic = ""
    /\ \E l \in SortLess :
         /\ heap = SortedClone(pre, prev, l).heap
         /\ t = TreeOf(SortedClone(pre, prev, l))
    /\ \A l \in SortOrders :
         /\ EmptySorted(SortBy(prev, l), prev, l)
         /\ SortedFrom(SortedClone(pre, prev, l), pre, prev, l)

\* A tree of three or more elements has been cloned into another order.
C24_Witness ==
  /\ last.op = "SortedClone"
  /\ prev.count >= 3
  /\ Walk(heap, t) # Walk(pre, prev)
  /\ Walk(heap, prev) = Walk(pre, prev)


\* ------------------------------------------------------------------ sharing
\* The nodes a search for x visits from n down, and the last of them.
RECURSIVE SearchPath(_, _, _, _)
SearchPath(hp, less, n, x) ==
  IF n = Nil THEN {}
  ELSE IF LessThan(less, hp[n].i, x) THEN {n} \cup SearchPath(hp, less, hp[n].r, x)
  ELSE IF LessThan(less, x, hp[n].i) THEN {n} \cup SearchPath(hp, less, hp[n].l, x)
  ELSE {n}

RECURSIVE SearchEnd(_, _, _, _)
SearchEnd(hp, less, n, x) ==
  IF n = Nil THEN Nil
  ELSE IF LessThan(less, hp[n].i, x) /\ hp[n].r # Nil
  THEN SearchEnd(hp, less, hp[n].r, x)
  ELSE IF LessThan(less, x, hp[n].i) /\ hp[n].l # Nil
  THEN SearchEnd(hp, less, hp[n].l, x)
  ELSE n

RECURSIVE LeftSpine(_, _)
LeftSpine(hp, n) == IF n = Nil THEN {} ELSE {n} \cup LeftSpine(hp, hp[n].l)
RECURSIVE RightSpine(_, _)
RightSpine(hp, n) == IF n = Nil THEN {} ELSE {n} \cup RightSpine(hp, hp[n].r)

\* The lowest node of a spine: the one without a child to go on with.
Leftmost(hp, n) == CHOOSE a \in LeftSpine(hp, n) : hp[a].l = Nil
Rightmost(hp, n) == CHOOSE a \in RightSpine(hp, n) : hp[a].r = Nil

IsLeaf(hp, a) == hp[a].l = Nil /\ hp[a].r = Nil

\* The nodes a Delete goes on to from the node a that holds its item, down to
\* the leaf it unlinks, and that leaf.
RECURSIVE SwapPath(_, _)
SwapPath(hp, a) ==
  IF IsLeaf(hp, a) THEN {}
  ELSE IF hp[a].r # Nil
  THEN LeftSpine(hp, hp[a].r) \cup SwapPath(hp, Leftmost(hp, hp[a].r))
  ELSE RightSpine(hp, hp[a].l) \cup SwapPath(hp, Rightmost(hp, hp[a].l))

RECURSIVE SwapEnd(_, _)
SwapEnd(hp, a) ==
  IF IsLeaf(hp, a) THEN a
  ELSE IF hp[a].r # Nil THEN SwapEnd(hp, Leftmost(hp, hp[a].r))
  ELSE SwapEnd(hp, Rightmost(hp, hp[a].l))

\* The last call wrote one item, and the item.
SingleWrite ==
  /\ last.op \in Inserters \cup Deleters
  /\ Len(last.items) = 1
  /\ last.panic = ""
Written == last.items[1]

\* The receiver held an element equivalent to the item written.
WasHeld == EquivIn(prev.less, Walk(pre, prev), Written) # {}

\* The descent path of the last call in its receiver.
DescentPath ==
  SearchPath(pre, prev.less, prev.root, Written) \cup
    (IF last.op \in Deleters /\ WasHeld
     THEN SwapPath(pre, SearchEnd(pre, prev.less, prev.root, Written))
     ELSE {})

\* The children of path nodes that are off the path: a rotation at the path
\* node takes such a child as its partner, and with it the child's inner child.
OffPathOf(path) ==
  {c \in 1..Len(pre) :
     c \notin path /\ \E n \in path : c \in {pre[n].l, pre[n].r}}
InnerOf(path, off) ==
  {g \in 1..Len(pre) :
     \E n \in path :
       \/ pre[n].r \in off /\ g = pre[pre[n].r].l
       \/ pre[n].l \in off /\ g = pre[pre[n].l].r}
WithPartners(path, off) == path \cup off \cup InnerOf(path, off)
TouchedBy(path) == WithPartners(path, OffPathOf(path))
Touched == TouchedBy(DescentPath)

\* The nodes of the result that are not nodes of the receiver.
NewNodes == Reach(heap, t.root) \ (1..Len(pre))

\* The node a is the same node, with the same fields, in both versions.
SharedNode(a) == a \in Reach(heap, t.root) /\ heap[a] = pre[a]

\* The child structure under n, the node skip left out.
RECURSIVE Struct(_, _, _)
Struct(hp, n, skip) ==
  IF n = Nil \/ n = skip THEN <<>>
  ELSE <<Struct(hp, hp[n].l, skip), Struct(hp, hp[n].r, skip)>>

\* The leaf an Insert added, and the leaf a Delete unlinked.
NewLeaf ==
  IF last.op \in Inserters /\ ~WasHeld
  THEN CHOOSE a \in NewNodes : heap[a].i = Written
  ELSE Nil
GoneLeaf ==
  IF last.op \in Deleters /\ WasHeld
  THEN SwapEnd(pre, SearchEnd(pre, prev.less, prev.root, Written))
  ELSE Nil

\* No rotation took place: but for the leaf added or unlinked, the result
\* has the child structure of the receiver.
Unrotated ==
  Struct(heap, t.root, NewLeaf) = Struct(pre, prev.root, GoneLeaf)

\* The sets the sharing is stated over, each worked out once: the nodes of
\* the receiver (old) and of the result (now), the path with its partners
\* (touched), the path alone (path) and the number of leaves added (grown).
SharesAll(old, now, touched, path, grown) ==
  /\ \A a \in now \cap (1..Len(pre)) : a \in old /\ heap[a] = pre[a]
  /\ \A a \in now \ (1..Len(pre)) :
       \/ last.op \in Inserters /\ heap[a].i = Written
       \/ \E b \in touched : heap[a].i = pre[b].i
  /\ Cardinality(now \ (1..Len(pre))) <= Cardinality(touched) + grown
  /\ \A a \in old \ touched : a \in now /\ heap[a] = pre[a]
  /\ Unrotated =>
       /\ \A a \in old \ path : a \in now /\ heap[a] = pre[a]
       /\ Cardinality(now \ (1..Len(pre))) <= Cardinality(path) + grown

\* C25: a single-item Insert or Delete allocates nothing but copies of
\* the nodes on its descent path, the new leaf, and copies of the rotation
\* partners; every other node of the result is a node of the receiver, and
\* a subtree off the path that no rotation touched is the same node in
\* both versions.
C25_StructuralSharing ==
  SingleWrite =>
    SharesAll(Reach(pre, prev.root), Reach(heap, t.root), Touched, DescentPath,
              IF NewLeaf = Nil THEN 0 ELSE 1)

\* A Delete rotated the tree and still shares a subtree with its receiver.
C25_Witness ==
  /\ SingleWrite
  /\ last.op \in Deleters
  /\ last.found
  /\ ~Unrotated
  /\ \E a \in Reach(pre, prev.root) \ Touched : SharedNode(a)

\* ------------------------------------------------------------------ readers
\* The tree the writer works on or has returned last, on the shared heap.
WriterWalk == IF InFlight THEN WalkOf(last.m) ELSE Walk(heap, t)

\* C26: under every interleaving of a reader's Next and Item with the
\* writer's InsertWith and Delete, down to the single items of a batch, the
\* reader sees the elements, marks included, that its tree had when it was
\* published: nothing a derived version inserted or overwrote, and everything
\* a derived version removed.
C26_ReadersSeeTheirVersion ==
  iter # NoIter =>
    /\ Len(heap) >= Len(pre)
    /\ \A a \in 1..Len(pre) : heap[a] = pre[a]
    /\ Walk(heap, prev) = Walk(pre, prev)
    /\ \A j \in 1..Len(hist.yield) : hist.yield[j][1] = "Next"
    /\ IsPrefix(YieldItems, Walk(pre, prev))
    /\ hist.ended # "" => YieldItems = Walk(pre, prev)
    /\ hist.ended = "" /\ hist.lastc.op = "Next" => hist.lastc.ok
    /\ InFlight => last.m.panic = "" /\ last.m.heap = heap

\* The reader is part of the way through a tree of three or more elements,
\* and the batch in flight has overwritten an element it has yet to reach
\* and removed or replaced nodes of the tree.
C26_Witness ==
  /\ iter # NoIter
  /\ InFlight
  /\ prev.count >= 3
  /\ Len(hist.yield) > 0
  /\ Len(hist.yield) < prev.count
  /\ \E x \in Range(Walk(pre, prev)) \ Range(YieldItems) :
       <<x[1], 2>> \in Range(WriterWalk)

\* ------------------------------------------------------------------ unorderable
\* The nodes a lookup with cmp visits from n down: it goes left of a node
\* that is Greater, right of one that is Less, and stops at any other.
RECURSIVE VisitedBy(_, _, _)
VisitedBy(hp, n, cmp) ==
  IF n = Nil THEN {}
  ELSE IF cmp[hp[n].i] = Greater THEN {n} \cup VisitedBy(hp, hp[n].l, cmp)
  ELSE IF cmp[hp[n].i] = Less THEN {n} \cup VisitedBy(hp, hp[n].r, cmp)
  ELSE {n}

\* The nodes among them that cmp has no ordering for.
Unordered(hp, n, cmp) ==
  {a \in VisitedBy(hp, n, cmp) : cmp[hp[a].i] \notin {Less, Equal, Greater}}

\* C27: Get and Has panic with the unorderable error when the comparator
\* returns a value outside Less, Equal and Greater for a node they visit, and
\* do not panic when the tree is empty or every node they visit compares to
\* one of the three.
C27_UnorderablePanics ==
  last.op \in {"GetWith", "HasWith"} =>
    /\ last.panic \in {"", "unorderable"}
    /\ (last.panic = "unorderable") =
         (Unordered(heap, t.root, last.items[1]) # {})
    /\ t.root = Nil => last.panic = ""
    /\ last.panic = "" =>
         last.found = (\E a \in VisitedBy(heap, t.root, last.items[1]) :
                         last.items[1][heap[a].i] = Equal)
    /\ last.panic # "" => ~last.found /\ last.v = Zero

\* Get panicked at a node below the root.
C27_Witness ==
  /\ last.op = "GetWith"
  /\ last.panic = "unorderable"
  /\ t.count >= 3
  /\ last.items[1][heap[t.root].i] \in {Less, Greater}

\* ------------------------------------------------------------------ batches
Batched == {"New", "CreateWith", "Insert", "InsertWith", "DeleteWith", "DeleteItems"}

\* C28: within one batch a node allocated or copied earlier in the batch is
\* never copied again, each node of the source tree is copied at most once,
\* and a batch that started from an empty tree copies no node.
C28_BatchCopiesOnce ==
  last.op \in Batched /\ last.panic = "" =>
    /\ \A j \in 1..Len(last.copied) : last.copied[j] \in 1..Len(pre)
    /\ \A j, k \in 1..Len(last.copied) :
         j # k => last.copied[j] # last.copied[k]
    /\ Receiver.root = Nil => last.copies = 0

\* ------------------------------------------------------------------ assertions
\* C29: no sequence of inserts and deletes that starts from an empty tree
\* reaches a fatal assertion: rebalance never meets a balance outside
\* [-2, +2], swapChild finds the rotated node under the stack entry before
\* it, and deleteOne never finds a node of height above 1 without children.
C29_NoFatalAssertion ==
  last.op \in Constructors \cup Inserters \cup Deleters =>
    /\ last.panic = ""
    /\ \A a \in Reach(heap, t.root) :
         /\ balance(heap, a) \in {Less, Equal, Greater}
         /\ heap[a].h > 1 => ~IsLeaf(heap, a)

\* A Delete took its item out of an interior node and rotated a node below
\* the root: the loop of deleteOne, rebalance and swapChild have all run.
C29_Witness ==
  /\ SingleWrite
  /\ last.op \in Deleters
  /\ last.found
  /\ last.rebalanced
  /\ ~Unrotated
  /\ SearchEnd(pre, prev.less, prev.root, Written) # prev.root
  /\ ~IsLeaf(pre, SearchEnd(pre, prev.less, prev.root, Written))
  /\ heap[t.root].i = pre[prev.root].i

\* ------------------------------------------------------------------ skipped rebalance
\* The last call hung a new leaf on a node of its receiver: that node, the
\* side the leaf went to, and whether the node had a child on the other side.
HungLeaf == SingleWrite /\ last.op \in Inserters /\ prev.root # Nil /\ ~WasHeld
Parent == SearchEnd(pre, prev.less, prev.root, Written)
HadOther ==
  IF LessThan(prev.less, Written, pre[Parent].i) THEN pre[Parent].r # Nil
  ELSE pre[Parent].l # Nil

\* The stored heights and the child structure under n, the node skip left out.
RECURSIVE ShapeBut(_, _, _)
ShapeBut(hp, n, skip) ==
  IF n = Nil \/ n = skip THEN <<>>
  ELSE <<hp[n].h, ShapeBut(hp, hp[n].l, skip), ShapeBut(hp, hp[n].r, skip)>>

\* Every stored height under n is the real one and every balance tolerable.
WellShaped(hp, n) ==
  \A a \in Reach(hp, n) :
    /\ hp[a].h = RealHeight(hp, a)
    /\ RealHeight(hp, hp[a].r) - RealHeight(hp, hp[a].l) \in {Less, Equal, Greater}

\* C30: when Insert hangs the new leaf on a parent that already had a child
\* on the other side it does not call rebalance, and the stored heights of
\* the parent and of every ancestor, left as they were, are correct and
\* balanced; when the parent had no other child it calls rebalance.
C30_InsertSkipsRebalanceWhenSafe ==
  HungLeaf =>
    /\ last.rebalanced = ~HadOther
    /\ WellShaped(heap, t.root)
    /\ HadOther =>
         /\ ShapeBut(heap, t.root, NewLeaf) = Shape(pre, prev.root)
         /\ \E b \in Reach(heap, t.root) :
              /\ NewLeaf \in {heap[b].l, heap[b].r}
              /\ heap[b].i = pre[Parent].i
              /\ heap[b].h = pre[Parent].h
    /\ ~HadOther => pre[Parent].h = 1

\* A leaf was hung, without a call of rebalance, on a node below the root
\* that had one child, in a tree of three levels or more.
C30_Witness ==
  /\ HungLeaf
  /\ HadOther
  /\ ~last.rebalanced
  /\ Parent # prev.root
  /\ pre[prev.root].h > pre[Parent].h
  /\ prev.count > MaxKey

\* ------------------------------------------------------------------ short circuit
\* The stored height of a is one more than the higher of its children's, and
\* its balance is one an AVL tree tolerates.
Consistent(hp, a) ==
  hp[a].h = 1 + Higher(height(hp, hp[a].l), height(hp, hp[a].r))
Tolerable(hp, a) == balance(hp, a) \in {Less, Equal, Greater}

\* The frames of the stack above the one rebalance left its loop at.
Unvisited == 1..(last.brokeAt - 1)

\* C31: when rebalance leaves its loop at a frame because the frame's
\* height is what it was before the step, every frame above it, which the
\* loop never visits, holds a node whose stored height is consistent and
\* whose balance is tolerable, every such frame points at the node in the
\* frame below it, the frame at the top is the root, and the whole result
\* has true heights and tolerable balances.
C31_ShortCircuitSound ==
  SingleWrite /\ last.brokeAt > 0 =>
    /\ last.brokeAt <= Len(last.s)
    /\ \A j \in Unvisited :
         /\ Consistent(heap, last.s[j])
         /\ Tolerable(heap, last.s[j])
         /\ last.s[j + 1] \in {heap[last.s[j]].l, heap[last.s[j]].r}
    /\ last.s[1] = t.root
    /\ WellShaped(heap, t.root)

\* An Insert rotated a node below the root, and rebalance left its loop at
\* that frame with the root's frame unvisited.
C31_Witness ==
  /\ SingleWrite
  /\ last.op \in Inserters
  /\ last.brokeAt > 1
  /\ ~Unrotated
  /\ heap[t.root].h = pre[prev.root].h

\* ------------------------------------------------------------------ rotations
RotatedOnce == last.op \in Rotations /\ last.panic = ""
RotatedBack ==
  /\ last.op \in {"rotateLeft, rotateRight", "rotateRight, rotateLeft"}
  /\ last.panic = ""

\* C32: rotateLeft and rotateRight keep the in-order sequence and the nodes
\* of the subtree they rotate, and each undoes the other: a rotateLeft of a
\* node with a right child followed by a rotateRight of the result, the two
\* changed heights recomputed after each, gives back the same nodes with the
\* same children, items and heights (and so for rotateRight, rotateLeft).
C32_RotationsAreInverse ==
  /\ RotatedOnce =>
       /\ Walk(heap, t) = Walk(pre, prev)
       /\ Reach(heap, t.root) = Reach(pre, prev.root)
       /\ t.root # prev.root
       /\ t.root \in {pre[prev.root].l, pre[prev.root].r}
       /\ \A a \in Reach(heap, t.root) : Consistent(heap, a)
  /\ RotatedBack =>
       /\ Walk(heap, t) = Walk(pre, prev)
       /\ t = prev
       /\ heap = pre

\* A root with a right child that has a left child was rotated left and
\* then right: the inner grandchild changed its parent twice.
C32_Witness ==
  /\ last.op = "rotateLeft, rotateRight"
  /\ last.panic = ""
  /\ pre[prev.root].l # Nil
  /\ pre[pre[prev.root].r].l # Nil
  /\ pre[pre[prev.root].r].r # Nil
  /\ prev.count > MaxKey

\* ------------------------------------------------------------------ end of iteration
\* The last call on the cursor was a Next or a Prev, and it returned false.
Moved == Live /\ hist.lastc.op \in {"Next", "Prev"}
Refused == Moved /\ ~hist.lastc.ok

\* Every call that returned true was a Next: by the clauses on released
\* cursors below, any Prev in between was without effect.
OnlyNext == Live /\ YieldOps \subseteq {"Next"}

\* The last call was a Prev on a cursor that OffsetAndLimit returned.
InertPrev == Moved /\ iter.kind = "range" /\ hist.lastc.op = "Prev"

\* C33 as stated: Next returns true at most n times on a tree of n
\* elements, a cursor whose Next or Prev has returned false is released,
\* and a Next or Prev on a released cursor returns false.
C33_EndIsAbsorbing ==
  /\ OnlyNext => Len(hist.yield) <= t.count
  /\ Refused => iter.obj.released
  /\ Moved /\ hist.lastc.was.obj.released =>
       ~hist.lastc.ok /\ iter.obj.released

\* C33: Next returns true at most n times on a tree of n elements; a
\* cursor whose Next has returned false, and a cursor of Iterator whose Prev
\* has returned false, is released; a Next or Prev on a released cursor
\* returns false and leaves it released; Prev on a cursor of OffsetAndLimit
\* returns false and leaves the cursor as it found it, released or not.
C33_EndIsAbsorbingButInertPrev ==
  /\ OnlyNext => Len(hist.yield) <= t.count
  /\ Refused /\ ~InertPrev => iter.obj.released
  /\ Moved /\ hist.lastc.was.obj.released =>
       ~hist.lastc.ok /\ iter.obj.released
  /\ InertPrev =>
       /\ ~hist.lastc.ok
       /\ iter.obj = [hist.lastc.was.obj EXCEPT !.ok = FALSE]

\* Next ran over a whole tree and returned false, and the Prev that
\* followed on the released cursor returned false as well.
C33_Witness ==
  /\ Refused
  /\ iter.kind = "cmp"
  /\ hist.lastc.op = "Prev"
  /\ hist.lastc.was.obj.released
  /\ hist.ended = "Next"
  /\ OnlyNext
  /\ Len(hist.yield) = t.count
  /\ t.count >= MaxKey

\* ------------------------------------------------------------------ delete by swapping
\* The last call deleted one item that its receiver held; the node that held
\* it, and the receiver's walk.
Unhung == SingleWrite /\ last.op \in Deleters /\ last.found
Target == SearchEnd(pre, prev.less, prev.root, Written)

\* The element next after x in the sequence q, and the one next before it.
Position(q, x) == CHOOSE j \in 1..Len(q) : q[j] = x
Successor(q, x) == q[Position(q, x) + 1]
Predecessor(q, x) == q[Position(q, x) - 1]

\* The neighbours the exchanges of a Delete take in turn, as the walk w of
\* the receiver gives them: the successor of the item deleted when the node
\* on hand has a right child, its predecessor otherwise, and from there on
\* the next item in the same direction.
Neighbour(w, j) ==
  IF j = 1
  THEN IF pre[Target].r # Nil THEN Successor(w, last.deleted)
       ELSE Predecessor(w, last.deleted)
  ELSE IF pre[Target].r # Nil THEN Successor(w, last.swapped[j - 1].i)
       ELSE Predecessor(w, last.swapped[j - 1].i)

\* C34: a Delete of an item held in an interior node exchanges the item
\* with its neighbour in order, the successor when the node has a right
\* child and the predecessor otherwise, at most twice before the item sits
\* in a node of height 1; every node an exchange writes was allocated by the
\* batch, no node of the receiver changes, and the result walks as the
\* receiver does with the deleted item left out.
C34_DeleteSwapsAtMostTwice ==
  Unhung =>
    /\ Len(last.swapped) <= 2
    /\ Len(last.swapped) = 0 <=> pre[Target].h = 1
    /\ \A j \in 1..Len(last.swapped) :
         /\ last.swapped[j].at \notin 1..Len(pre)
         /\ last.swapped[j].alt \notin 1..Len(pre)
         /\ last.swapped[j].i = Neighbour(Walk(pre, prev), j)
         /\ j > 1 => last.swapped[j].at = last.swapped[j - 1].alt
    /\ \A a \in 1..Len(pre) : heap[a] = pre[a]
    /\ last.deleted = pre[Target].i
    /\ Walk(heap, t) = Without(Walk(pre, prev), last.deleted)
    /\ t.count = prev.count - 1

\* A Delete took its item out of a node below the root with two exchanges.
C34_Witness ==
  /\ Unhung
  /\ Len(last.swapped) = 2
  /\ Target # prev.root
  /\ pre[Target].l # Nil

\* ------------------------------------------------------------------ generation stamps
\* The height the children of n give it, read from their last bytes.
ChildH(hp, c) == IF c = Nil THEN 0 ELSE hp[c].genH[8]
HeightDue(hp, n) == 1 + Higher(ChildH(hp, hp[n].l), ChildH(hp, hp[n].r))

\* The seven bytes of the word above its last one.
Upper(w) == SubSeq(w, 1, 7)

\* The node a holds the generation g and the height x: g in the upper 56
\* bits of its word, x in the low 8.
Holding(hp, a, g, x) ==
  /\ g[1] = 0
  /\ Upper(hp[a].genH) = SubSeq(g, 2, 8)
  /\ hp[a].genH[8] = x

\* Every node of pre is in heap as it was, but for the node skip.
KeptBut(skip) ==
  /\ Len(heap) >= Len(pre)
  /\ \A a \in 1..Len(pre) : a # skip => heap[a] = pre[a]

\* C35: in the node variant with generation stamps, setHeight writes the
\* height its children give the node into the low 8 bits of the word and
\* leaves the upper 56, and so gen(), as they were; newNode makes a node of
\* height 1 without children that carries the batch's generation; copy
\* hands back the node itself when gen() is the batch's generation and
\* otherwise a new node with the same children, item and height that carries
\* the batch's generation; no call changes any other node.
C35_GenerationStampPacking ==
  /\ GenLive /\ last.op = "setHeight" =>
       /\ Upper(heap[last.n].genH) = Upper(pre[last.n].genH)
       /\ nodeGen(heap[last.n]) = nodeGen(pre[last.n])
       /\ nodeH(heap[last.n]) = HeightDue(pre, last.n)
       /\ heap[last.n].l = pre[last.n].l
       /\ heap[last.n].r = pre[last.n].r
       /\ heap[last.n].i = pre[last.n].i
       /\ Len(heap) = Len(pre)
       /\ KeptBut(last.n)
  /\ GenLive /\ last.op = "newNode" =>
       /\ last.ret = Len(pre) + 1
       /\ Len(heap) = Len(pre) + 1
       /\ Holding(heap, last.ret, last.gen, 1)
       /\ nodeGen(heap[last.ret]) = last.gen
       /\ nodeH(heap[last.ret]) = 1
       /\ heap[last.ret].l = Nil
       /\ heap[last.ret].r = Nil
       /\ KeptBut(Nil)
  /\ GenLive /\ last.op = "copy" =>
       /\ KeptBut(Nil)
       /\ IF Upper(pre[last.n].genH) = SubSeq(last.gen, 2, 8)
          THEN last.ret = last.n /\ heap = pre
          ELSE /\ last.ret = Len(pre) + 1
               /\ Len(heap) = Len(pre) + 1
               /\ Holding(heap, last.ret, last.gen, pre[last.n].genH[8])
               /\ nodeGen(heap[last.ret]) = last.gen
               /\ nodeH(heap[last.ret]) = nodeH(pre[last.n])
               /\ heap[last.ret].l = pre[last.n].l
               /\ heap[last.ret].r = pre[last.n].r
               /\ heap[last.ret].i = pre[last.n].i

\* A batch of the greatest generation copied a node of another generation
\* that has both children and a height above 1.
C35_Witness ==
  /\ GenLive
  /\ last.op = "copy"
  /\ last.gen = <<0, 255, 255, 255, 255, 255, 255, 255>>
  /\ last.ret # last.n
  /\ pre[last.n].l # Nil
  /\ pre[last.n].r # Nil
  /\ nodeH(pre[last.n]) = HeightDue(pre, last.n)
  /\ nodeH(pre[last.n]) > 1


=============================================================================
